---- MODULE Spec2Model ----
(***************************************************************************)
(* Result-ledger parsers of College-Result-Analysis: parser.py (gazette,   *)
(* 2019 pattern), parser_nep.py (NEP, first year) and parser_sy.py (second *)
(* year), and the /analyze handler of app.py that calls them.              *)
(*                                                                         *)
(* Text is modelled after whitespace tokenisation: a text is a sequence of *)
(* tokens, a token being a string without whitespace or the line break     *)
(* "\n"; a document is a sequence of pages, each a text.  A run of blanks   *)
(* is one token boundary.  A regular expression of the source is an        *)
(* operator that matches the same literal words on consecutive tokens, \s  *)
(* passing line breaks and "." stopping at them; a literal word is matched *)
(* as a whole token.  Characters inside a token are kept, so replace(),    *)
(* strip(), isdigit() and the "in" substring test are computed on them.    *)
(***************************************************************************)
EXTENDS Integers, Sequences, FiniteSets, TLC

(***************************************************************************)
(* Strings                                                                 *)
(***************************************************************************)
Digits == {"0", "1", "2", "3", "4", "5", "6", "7", "8", "9"}

Max(a, b) == IF a >= b THEN a ELSE b

Min(a, b) == IF a <= b THEN a ELSE b

\* s[i] of Python for a 1-based position i
Ch(s, i) == SubSeq(s, i, i)

\* s[i:] of Python for a 1-based first position i
From(s, i) == SubSeq(s, i, Len(s))

\* str.isdigit() on a non-empty string of ASCII characters
IsDigits(s) == Len(s) > 0 /\ \A i \in 1..Len(s) : Ch(s, i) \in Digits

\* sub in s
Contains(s, sub) ==
    \E i \in 1..(Len(s) - Len(sub) + 1) : SubSeq(s, i, i + Len(sub) - 1) = sub

\* s.startswith(p)
StartsWith(s, p) == Len(s) >= Len(p) /\ SubSeq(s, 1, Len(p)) = p

\* s.replace(sub, ""): every occurrence, scanned left to right
RECURSIVE Remove(_, _)
Remove(s, sub) ==
    IF Len(s) < Len(sub) \/ Len(sub) = 0 THEN s
    ELSE IF SubSeq(s, 1, Len(sub)) = sub THEN Remove(From(s, Len(sub) + 1), sub)
    ELSE Ch(s, 1) \o Remove(From(s, 2), sub)

\* s.strip() for the blank and the line break
RECURSIVE Strip(_)
Strip(s) ==
    IF Len(s) = 0 THEN s
    ELSE IF Ch(s, 1) \in {" ", "\n"} THEN Strip(From(s, 2))
    ELSE IF Ch(s, Len(s)) \in {" ", "\n"} THEN Strip(SubSeq(s, 1, Len(s) - 1))
    ELSE s

\* s.split(): the whitespace-separated words of a string
RECURSIVE SplitWs(_, _)
SplitWs(s, cur) ==
    IF Len(s) = 0 THEN (IF cur = "" THEN <<>> ELSE <<cur>>)
    ELSE IF Ch(s, 1) = " "
         THEN (IF cur = "" THEN <<>> ELSE <<cur>>) \o SplitWs(From(s, 2), "")
         ELSE SplitWs(From(s, 2), cur \o Ch(s, 1))

Split(s) == SplitWs(s, "")

LowerAlpha == "abcdefghijklmnopqrstuvwxyz"

UpperAlpha == "ABCDEFGHIJKLMNOPQRSTUVWXYZ"

UpperCh(c) ==
    IF \E i \in 1..26 : Ch(LowerAlpha, i) = c
    THEN Ch(UpperAlpha, CHOOSE i \in 1..26 : Ch(LowerAlpha, i) = c)
    ELSE c

\* s.upper()
RECURSIVE Upper(_)
Upper(s) ==
    IF Len(s) <= 1 THEN UpperCh(s)
    ELSE Upper(SubSeq(s, 1, Len(s) \div 2)) \o Upper(SubSeq(s, Len(s) \div 2 + 1, Len(s)))

\* re.sub(r'[^A-Z0-9-]', '', s)
RECURSIVE KeepCodeChars(_)
KeepCodeChars(s) ==
    IF Len(s) = 0 THEN s
    ELSE (IF Contains(UpperAlpha, Ch(s, 1)) \/ Ch(s, 1) \in Digits \/ Ch(s, 1) = "-"
          THEN Ch(s, 1) ELSE "") \o KeepCodeChars(From(s, 2))

(***************************************************************************)
(* Python sequences                                                        *)
(***************************************************************************)
\* The value returned for "no record": None
None == [none |-> TRUE]

\* parts[k] for a 0-based index k, negative k counting from the end
InRange(parts, k) == -Len(parts) <= k /\ k < Len(parts)

At(parts, k) == IF k >= 0 THEN parts[k + 1] ELSE parts[Len(parts) + k + 1]

\* parts[a:b] for a >= 0 and any b
Slice(parts, a, b) ==
    LET hi == IF b < 0 THEN Max(Len(parts) + b, 0) ELSE Min(b, Len(parts))
    IN  IF hi <= a THEN <<>> ELSE SubSeq(parts, a + 1, hi)

\* dict.get(key, default)
Get(map, key, default) == IF key \in DOMAIN map THEN map[key] ELSE default

\* sub in line, for a sub without whitespace and a line given by its tokens
LineContains(line, sub) == \E i \in 1..Len(line) : Contains(line[i], sub)

LineContainsUpper(line, sub) == \E i \in 1..Len(line) : Contains(Upper(line[i]), sub)

(***************************************************************************)
(* parser_sy.py: mark value cleaning and the marks row parser              *)
(***************************************************************************)
\* The absent markers of split_prefix_marks
AbsentMarks == {"---", "-", "AB", "AA", "AAA"}

\* split_prefix_marks(val): <<prefix, mark_value>>
split_prefix_marks(val0) ==
    LET val == Strip(Remove(Remove(Remove(val0, "FFF"), "$"), "#"))
    IN  IF val \in AbsentMarks THEN <<"-", "-">>
        ELSE IF Contains(val, " ") THEN <<Split(val)[1], Split(val)[2]>>
        ELSE IF Len(val) > 0 /\ Ch(val, 1) \notin Digits THEN <<Ch(val, 1), From(val, 2)>>
        ELSE <<"", val>>

\* valid_grades of parse_marks_row
valid_grades == {"O", "A+", "A", "B+", "B", "C", "D", "F", "P", "AB", "FAIL"}

\* The lines parse_marks_row ignores: headers and profile tags
IsHeaderLine(line) ==
    \/ LineContainsUpper(line, "CODE")
    \/ LineContainsUpper(line, "NAME:")
    \/ LineContainsUpper(line, "PRN:")

\* len(parts) < MinParts: not a record
MinParts == 6

\* for i in range(1, GradeWindow + 1)
GradeWindow == 6

\* The i of the right-to-left scan at which the grade is found, 0 if none:
\* the scan stops at the first hit and at i >= len(parts)
GradeScan(parts) ==
    LET hits == {i \in 1..GradeWindow : i < Len(parts) /\ At(parts, -i) \in valid_grades}
    IN  IF hits = {} THEN 0 ELSE CHOOSE i \in hits : \A j \in hits : i <= j

\* The symbols of the total column that push the total one column to the left
FailSymbols == {"FFF", "FAIL", "AB", "AA", "$", "#"}

\* The tokens kept as a column of their own
KeptMarks == {"---", "AAA", "AA"}

\* The symbols merged with the token that follows them
PrefixSymbols == {"P", "*", "~", "#", "$", "@"}

\* The while loop that consolidates split mark columns
RECURSIVE MergeColumns(_)
MergeColumns(toks) ==
    IF toks = <<>> THEN <<>>
    ELSE IF Head(toks) \in KeptMarks THEN <<Head(toks)>> \o MergeColumns(Tail(toks))
    ELSE IF Head(toks) \in PrefixSymbols /\ Len(toks) > 1
         THEN <<Head(toks) \o " " \o toks[2]>> \o MergeColumns(Tail(Tail(toks)))
    ELSE <<Head(toks)>> \o MergeColumns(Tail(toks))

\* while len(cleaned_columns) < 3: cleaned_columns.append("---")
RECURSIVE PadColumns(_)
PadColumns(cols) == IF Len(cols) < 3 THEN PadColumns(Append(cols, "---")) ELSE cols

\* cleaned_columns of parse_marks_row for the tokens of the marks region
cleaned_columns(marks_tokens) == PadColumns(MergeColumns(marks_tokens))

\* grade_idx = len(parts) - i for the i at which the scan found the grade
grade_idx_off(parts) == Len(parts) - GradeScan(parts) - 1

grade_index(parts) == Len(parts) - GradeScan(parts)

\* Whether the total column holds a failing symbol, the total standing left of it
total_shifted(parts) == At(parts, grade_index(parts) - 3) \in FailSymbols

\* marks_tokens = parts[1 : marks_end_idx]
marks_tokens(parts) ==
    Slice(parts, 1, IF total_shifted(parts) THEN grade_index(parts) - 4
                    ELSE grade_index(parts) - 3)

\* A field read to the right of the grade in the order the ledger is not
\* printed in: the k-th field taken from the column of the other one
right_of_grade_swapped(parts, grade_idx, k) ==
    IF grade_idx + 3 - k < Len(parts) THEN At(parts, grade_idx + 3 - k) ELSE "0"

\* parts[grade_idx + k] if (grade_idx + k) < len(parts) else "0"
right_of_grade(parts, grade_idx, k) ==
    IF grade_idx + k < Len(parts) THEN At(parts, grade_idx + k) ELSE "0"

\* parse_marks_row(line, subject_map): the record of a row, or None
parse_marks_row(line, subject_map) ==
    IF IsHeaderLine(line) THEN None
    ELSE IF Len(line) < MinParts THEN None
    ELSE IF GradeScan(line) = 0 THEN None
    ELSE
      LET parts == line
          grade_idx == grade_index(parts)
          p1 == At(parts, grade_idx - 3)
          p2 == At(parts, grade_idx - 4)
          total == IF total_shifted(parts) THEN p2
                   ELSE IF Contains(p1, "FFF") THEN Remove(p1, "FFF") ELSE p1
          code == Strip(Remove(At(parts, 0), ":"))
          cols == cleaned_columns(marks_tokens(parts))
      IN  IF ~ \A k \in 1..4 : InRange(parts, grade_idx - k) THEN None
          ELSE [code |-> code,
                name |-> Get(subject_map, code, "Subject Name Not Found"),
                p_int |-> split_prefix_marks(cols[1])[1],
                int_m |-> split_prefix_marks(cols[1])[2],
                p_ext |-> split_prefix_marks(cols[2])[1],
                ext_m |-> split_prefix_marks(cols[2])[2],
                p_pr |-> split_prefix_marks(cols[3])[1],
                pr_m |-> split_prefix_marks(cols[3])[2],
                total |-> total,
                crd |-> At(parts, grade_idx - 2),
                ern |-> At(parts, grade_idx - 1),
                grd |-> At(parts, grade_idx),
                gp |-> right_of_grade(parts, grade_idx, 1),
                cp |-> right_of_grade(parts, grade_idx, 2)]

(***************************************************************************)
(* parser_nep.py: the subject row of parse_nep_block                       *)
(***************************************************************************)
\* A line is a subject record from this many components on
NepMinParts == 8

\* The shortest accepted subject code
MinCodeLen == 3

\* The score markers merged with the token that follows them
NepPrefixes == {"P", "*", "AA"}

\* The while loop over marks_area
RECURSIVE NepProcessed(_)
NepProcessed(marks_area) ==
    IF marks_area = <<>> THEN <<>>
    ELSE IF Head(marks_area) \in NepPrefixes /\ Len(marks_area) > 1
         THEN <<Head(marks_area) \o " " \o marks_area[2]>>
              \o NepProcessed(Tail(Tail(marks_area)))
    ELSE <<Head(marks_area)>> \o NepProcessed(Tail(marks_area))

\* code_clean of a row
nep_code_clean(parts) == KeepCodeChars(Remove(Strip(At(parts, 0)), ":"))

\* Whether a line of a semester section is taken as a subject record
nep_is_row(line) == Len(line) >= NepMinParts /\ Len(nep_code_clean(line)) >= MinCodeLen

\* m[0] if len(m) > 1 else "-", and m[-1], for m = processed[k].split()
NepPrefixOf(col) == IF Len(Split(col)) > 1 THEN Split(col)[1] ELSE "-"

NepValueOf(col) == Split(col)[Len(Split(col))]

\* marks_area = parts[1:-6]
marks_area(parts) == Slice(parts, 1, -6)

\* The record built for a subject line
nep_row(line, subject_map) ==
    LET parts == line
        processed == NepProcessed(marks_area(parts))
        has(k) == Len(processed) >= k
    IN  [code |-> nep_code_clean(parts),
         name |-> Get(subject_map, nep_code_clean(parts), "---"),
         p_int |-> IF has(1) THEN NepPrefixOf(processed[1]) ELSE "-",
         int_m |-> IF has(1) THEN NepValueOf(processed[1]) ELSE "-",
         p_ext |-> IF has(2) THEN NepPrefixOf(processed[2]) ELSE "-",
         ext_m |-> IF has(2) THEN NepValueOf(processed[2]) ELSE "-",
         p_pr |-> IF has(3) THEN NepPrefixOf(processed[3]) ELSE "-",
         pr_m |-> IF has(3) THEN NepValueOf(processed[3]) ELSE "-",
         total |-> At(parts, -6),
         crd |-> At(parts, -5),
         ern |-> At(parts, -4),
         grd |-> At(parts, -3),
         gp |-> At(parts, -2),
         cp |-> At(parts, -1)]

(***************************************************************************)
(* Texts                                                                   *)
(***************************************************************************)
\* s.endswith(p)
EndsWith(s, p) == Len(s) >= Len(p) /\ SubSeq(s, Len(s) - Len(p) + 1, Len(s)) = p

\* The leading run of digits of a token: what (\d+) captures at its start
RECURSIVE DigitsPrefix(_)
DigitsPrefix(s) ==
    IF Len(s) = 0 \/ Ch(s, 1) \notin Digits THEN ""
    ELSE Ch(s, 1) \o DigitsPrefix(From(s, 2))

\* The leading run of digits and dots: what ([\d\.]+) captures at its start
RECURSIVE NumberPrefix(_)
NumberPrefix(s) ==
    IF Len(s) = 0 \/ (Ch(s, 1) \notin Digits /\ Ch(s, 1) # ".") THEN ""
    ELSE Ch(s, 1) \o NumberPrefix(From(s, 2))

StartsWithDigit(s) == Len(s) > 0 /\ Ch(s, 1) \in Digits

\* " ".join(tokens)
RECURSIVE JoinSp(_)
JoinSp(toks) ==
    IF toks = <<>> THEN ""
    ELSE IF Len(toks) = 1 THEN toks[1]
    ELSE toks[1] \o " " \o JoinSp(Tail(toks))

\* The line break, a token of its own inside a text
NL == "\n"

\* text.split('\n'): the lines of a text, each the sequence of its tokens
RECURSIVE LinesFrom(_, _)
LinesFrom(text, cur) ==
    IF text = <<>> THEN <<cur>>
    ELSE IF Head(text) = NL THEN <<cur>> \o LinesFrom(Tail(text), <<>>)
    ELSE LinesFrom(Tail(text), Append(cur, Head(text)))

Lines(text) == LinesFrom(text, <<>>)

\* "\n".join(lines)
RECURSIVE JoinNL(_)
JoinNL(lines) ==
    IF lines = <<>> THEN <<>>
    ELSE IF Len(lines) = 1 THEN lines[1]
    ELSE lines[1] \o <<NL>> \o JoinNL(Tail(lines))

\* The position reached from i by \s*: the first token at or after i that
\* is no line break, Len(text) + 1 if there is none
RECURSIVE Skip(_, _)
Skip(text, i) == IF i <= Len(text) /\ text[i] = NL THEN Skip(text, i + 1) ELSE i

\* The literal words of a pattern, separated by one blank, from token i on
WordsAt(toks, i, words) ==
    /\ i >= 1
    /\ i + Len(words) - 1 <= Len(toks)
    /\ \A k \in 1..Len(words) : toks[i + k - 1] = words[k]

\* The same under re.IGNORECASE, for upper-case words
WordsAtUpper(toks, i, words) ==
    /\ i >= 1
    /\ i + Len(words) - 1 <= Len(toks)
    /\ \A k \in 1..Len(words) : Upper(toks[i + k - 1]) = words[k]

MinOf(S) == CHOOSE x \in S : \A y \in S : x <= y

\* The first position of a set of positions, 0 if there is none
FirstOf(S) == IF S = {} THEN 0 ELSE MinOf(S)

\* A token followed, after \s*, by a token that starts with a digit
DigitsAfter(text, i) ==
    Skip(text, i + 1) <= Len(text) /\ StartsWithDigit(text[Skip(text, i + 1)])

\* The pieces of a text cut before the tokens at the positions cuts (a
\* lookahead split), or around them when the cut token is the separator
RECURSIVE Pieces(_, _, _)
Pieces(text, cuts, drop) ==
    IF cuts = {} THEN <<text>>
    ELSE LET c == MinOf(cuts)
             shift == IF drop THEN c ELSE c - 1
         IN  <<SubSeq(text, 1, c - 1)>>
             \o Pieces(SubSeq(text, shift + 1, Len(text)),
                       {k - shift : k \in cuts \ {c}}, drop)

\* A separator line of the gazette: a run of at least 30 dashes
DashRun == "------------------------------"

\* Token i starts the pattern a document is split on:
\*   "sy"      re.split(r'(?=PRN:\s*\d+)', full_text)
\*   "nep"     re.split(r'(?=PRN[:\s])', text)
\*   "gazette" re.split(r'-{30,}', full_text)
IsCut(kind, text, i) ==
    CASE kind = "sy" -> text[i] = "PRN:" /\ DigitsAfter(text, i)
      [] kind = "nep" -> text[i] = "PRN" \/ StartsWith(text[i], "PRN:")
      [] kind = "gazette" -> StartsWith(text[i], DashRun) /\ Remove(text[i], "-") = ""

Cuts(kind, text) == {i \in 1..Len(text) : IsCut(kind, text, i)}

\* re.split over a text: the list of blocks, each a text
re_split(kind, text) == Pieces(text, Cuts(kind, text), kind = "gazette")

(***************************************************************************)
(* parser_sy.py: one student block of main                                 *)
(***************************************************************************)
\* re.search(r"PRN:\s*(\d+)", block): group 1, "" when there is no match
sy_prn_match(block) ==
    LET i == FirstOf({k \in 1..Len(block) : block[k] = "PRN:" /\ DigitsAfter(block, k)})
    IN  IF i = 0 THEN "" ELSE DigitsPrefix(block[Skip(block, i + 1)])

\* re.search(r"SEAT NO\.:\s*(\d+)", block): group 1, "" when there is no match
sy_seat_match(block) ==
    LET i == FirstOf({k \in 1..Len(block) :
                        WordsAt(block, k, <<"SEAT", "NO.:">>) /\ DigitsAfter(block, k + 1)})
    IN  IF i = 0 THEN "" ELSE DigitsPrefix(block[Skip(block, i + 2)])

\* The position of the ":" of "<words> :" whose first word is token i, 0 if
\* the words or the colon are not there: the colon is a token of its own
\* or the end of the last word
ColonAfterUpper(text, i, words) ==
    LET n == Len(words)
        glued == [words EXCEPT ![n] = words[n] \o ":"]
    IN  IF WordsAtUpper(text, i, glued) THEN i + n - 1
        ELSE IF WordsAtUpper(text, i, words) /\ Skip(text, i + n) <= Len(text)
                /\ text[Skip(text, i + n)] = ":" THEN Skip(text, i + n)
        ELSE 0

ColonAfter(text, i, words) ==
    LET n == Len(words)
        glued == [words EXCEPT ![n] = words[n] \o ":"]
    IN  IF WordsAt(text, i, glued) THEN i + n - 1
        ELSE IF WordsAt(text, i, words) /\ Skip(text, i + n) <= Len(text)
                /\ text[Skip(text, i + n)] = ":" THEN Skip(text, i + n)
        ELSE 0

\* The tokens (.*?) takes from position s up to the lookahead
\* (?=\s+Total|\n): <<found, tokens>>
sy_result_group(block, colon) ==
    LET s == Skip(block, colon + 1)
        stops == {k \in s..Len(block) :
                    \/ block[k] = NL
                    \/ (k > s /\ StartsWith(Upper(block[k]), "TOTAL"))}
    IN  IF stops # {} THEN <<TRUE, SubSeq(block, s, MinOf(stops) - 1)>>
        ELSE IF \E k \in (colon + 1)..(s - 1) : block[k] = NL THEN <<TRUE, <<>>>>
        ELSE IF s <= Len(block) /\ StartsWith(Upper(block[s]), "TOTAL") THEN <<TRUE, <<>>>>
        ELSE <<FALSE, <<>>>>

\* re.search(r"Second Year Result\s*:\s*(.*?)(?=\s+Total|\n)", block,
\* re.IGNORECASE): <<matched, group(1).strip().upper()>>
sy_res_match(block) ==
    LET words == <<"SECOND", "YEAR", "RESULT">>
        hits == {k \in 1..Len(block) :
                    /\ ColonAfterUpper(block, k, words) # 0
                    /\ sy_result_group(block, ColonAfterUpper(block, k, words))[1]}
    IN  IF hits = {} THEN <<FALSE, "">>
        ELSE <<TRUE, Upper(JoinSp(
                 sy_result_group(block, ColonAfterUpper(block, MinOf(hits), words))[2]))>>

\* Token i opens a semester header of re.split(r'(SEMESTER:\s*\d)', block)
IsSemHeader(block, i) == block[i] = "SEMESTER:" /\ DigitsAfter(block, i)

\* The lines of a part, each with the semester it is parsed under
SemLines(cur, text) ==
    IF cur = "" THEN <<>>
    ELSE LET lines == Lines(text)
         IN  [k \in 1..Len(lines) |-> [sem |-> cur, line |-> lines[k]]]

\* The loop over sem_parts: every line read under a current_sem, in order
RECURSIVE SemWalk(_, _)
SemWalk(text, cur) ==
    LET h == FirstOf({k \in 1..Len(text) : IsSemHeader(text, k)})
    IN  IF h = 0 THEN SemLines(cur, text)
        ELSE LET d == Skip(text, h + 1)
                 rest == (IF Len(text[d]) > 1 THEN <<From(text[d], 2)>> ELSE <<>>)
                         \o SubSeq(text, d + 1, Len(text))
             IN  SemLines(cur, SubSeq(text, 1, h - 1)) \o SemWalk(rest, Ch(text[d], 1))

\* The lines read under a semester, each with what parse_marks_row returns
\* for it
WithRow(lines, subject_map) ==
    [k \in 1..Len(lines) |->
        [sem |-> lines[k].sem, line |-> lines[k].line,
         row |-> parse_marks_row(lines[k].line, subject_map)]]

\* The lines of the block on which parse_marks_row returns a row
IsRowLine(x) == x.row # None

sy_rows(block, subject_map) ==
    SelectSeq(WithRow(SemWalk(block, ""), subject_map), IsRowLine)

\* The semesters the student record has a subject list for
SySemesters == {"1", "2", "3", "4"}

\* student[f'sem{current_sem}_subjects'] raises KeyError for another digit
rows_raise(rows) == \E k \in 1..Len(rows) : rows[k].sem \notin SySemesters

sy_block_raises(block, subject_map) == rows_raise(sy_rows(block, subject_map))

\* The rows appended to sem<d>_subjects
RECURSIVE RowsOf(_, _)
RowsOf(rows, d) ==
    IF rows = <<>> THEN <<>>
    ELSE (IF Head(rows).sem = d THEN <<Head(rows).row>> ELSE <<>>)
         \o RowsOf(Tail(rows), d)

\* The grades a result is inferred from when the field is missing
FailGradesSy == {"F", "FFF", "FAIL", "AB", "Absent"}

\* all_grades: the grades of sem1 .. sem4, in that order
GradesOf(subjects) == [k \in 1..Len(subjects) |-> subjects[k].grd]

RECURSIVE sem_grades(_, _)
sem_grades(rows, sems) ==
    IF sems = <<>> THEN <<>>
    ELSE GradesOf(RowsOf(rows, Head(sems))) \o sem_grades(rows, Tail(sems))

rows_grades(rows) == sem_grades(rows, <<"1", "2", "3", "4">>)

sy_all_grades(block, subject_map) == rows_grades(sy_rows(block, subject_map))

\* Phase 8: the result inferred from the grades
sy_inferred_result(grades) ==
    IF \E k \in 1..Len(grades) : grades[k] \in FailGradesSy THEN "FAIL" ELSE "PASS"

\* Phases 5 and 8: the explicit statement, else the inference
res_or_inferred(res_match, grades) ==
    IF res_match[1] THEN res_match[2] ELSE sy_inferred_result(grades)

rows_result(block, rows) == res_or_inferred(sy_res_match(block), rows_grades(rows))

sy_result(block, subject_map) == rows_result(block, sy_rows(block, subject_map))

\* The colon of "<label> Semester SGPA :" whose first word is token k, 0 if
\* it is not there
sgpa_colon(block, k, label, ignorecase) ==
    IF ignorecase
    THEN ColonAfterUpper(block, k, <<Upper(label), "SEMESTER", "SGPA">>)
    ELSE ColonAfter(block, k, <<label, "Semester", "SGPA">>)

\* ([\d\.]+) after the colon, "" if the colon or the figure is not there
sgpa_figure(block, colon) ==
    IF colon = 0 \/ Skip(block, colon + 1) > Len(block) THEN ""
    ELSE NumberPrefix(block[Skip(block, colon + 1)])

sgpa_at(block, k, label, ignorecase) ==
    sgpa_figure(block, sgpa_colon(block, k, label, ignorecase))

\* re.search(rf"{label} Semester SGPA\s*:\s*([\d\.]+)", block) with
\* re.IGNORECASE or without: group 1 of the leftmost match, "" if there is
\* none
sgpa_match(block, label, ignorecase) ==
    LET figures == [k \in 1..Len(block) |-> sgpa_at(block, k, label, ignorecase)]
        i == FirstOf({k \in 1..Len(block) : figures[k] # ""})
    IN  IF i = 0 THEN "" ELSE figures[i]

\* The first SGPA figure found going through the labels in their order, "-"
\* if none has one
RECURSIVE first_figure(_)
first_figure(figures) ==
    IF figures = <<>> THEN "-"
    ELSE IF Head(figures) # "" THEN Head(figures)
    ELSE first_figure(Tail(figures))

first_sgpa(block, labels, ignorecase) ==
    first_figure([k \in 1..Len(labels) |-> sgpa_match(block, labels[k], ignorecase)])

\* Phase 9: the dashboard SGPA, from semester 4 down to semester 1, of a
\* student whose result has PASS in it
sy_dashboard_sgpa(block, result) ==
    IF Contains(Upper(result), "PASS")
    THEN first_sgpa(block, <<"Fourth", "Third", "Second", "First">>, TRUE)
    ELSE "-"

\* student = {'prn': '-', 'seat_no': '-', ...}: a field keeps "-" when its
\* search finds nothing
OrDash(found) == IF found = "" THEN "-" ELSE found

\* The student record a block is parsed into (names and summaries left out)
student_of(block, rows, result) ==
    [prn |-> OrDash(sy_prn_match(block)),
     seat_no |-> OrDash(sy_seat_match(block)),
     result |-> result,
     dashboard_sgpa |-> sy_dashboard_sgpa(block, result),
     sem1_subjects |-> RowsOf(rows, "1"),
     sem2_subjects |-> RowsOf(rows, "2"),
     sem3_subjects |-> RowsOf(rows, "3"),
     sem4_subjects |-> RowsOf(rows, "4")]

rows_student(block, rows) == student_of(block, rows, rows_result(block, rows))

sy_student(block, subject_map) == rows_student(block, sy_rows(block, subject_map))

\* A collection step that takes every student, with or without a PRN
sy_keeps_any(student) == TRUE

\* if student['prn'] != '-': all_students.append(student)
sy_keeps(student) == student.prn # "-"

kept(student) == IF sy_keeps(student) THEN student ELSE None

rows_block(block, rows) ==
    IF rows_raise(rows) THEN None ELSE kept(rows_student(block, rows))

\* One pass of the loop over student_blocks: the record appended, or None
\* when the block is skipped, raises, or has no PRN
sy_block(block, subject_map) ==
    IF ~ LineContains(block, "SEMESTER") THEN None
    ELSE rows_block(block, sy_rows(block, subject_map))

(***************************************************************************)
(* parser_nep.py: parse_nep_block                                          *)
(***************************************************************************)
\* re.search(r"PRN:?\s*(\d+)", block_text): group 1, "" when no match
nep_prn_match(block) ==
    LET i == FirstOf({k \in 1..Len(block) :
                        block[k] \in {"PRN:", "PRN"} /\ DigitsAfter(block, k)})
    IN  IF i = 0 THEN "" ELSE DigitsPrefix(block[Skip(block, i + 1)])

\* re.search(r"SEAT NO\.:?\s*(\d+)", block_text): group 1, "" when no match
nep_seat_match(block) ==
    LET i == FirstOf({k \in 1..(Len(block) - 1) :
                        /\ block[k] = "SEAT"
                        /\ block[k + 1] \in {"NO.:", "NO."}
                        /\ DigitsAfter(block, k + 1)})
    IN  IF i = 0 THEN "" ELSE DigitsPrefix(block[Skip(block, i + 2)])

\* The last token of the separator r'Semester\s*:\s*' (re.IGNORECASE) that
\* starts at token i, 0 if none starts there
nep_sem_sep(text, i) == ColonAfterUpper(text, i, <<"SEMESTER">>)

\* re.split(r'Semester\s*:\s*', block_text, flags=re.IGNORECASE)
RECURSIVE nep_sem_parts(_)
nep_sem_parts(text) ==
    LET h == FirstOf({k \in 1..Len(text) : nep_sem_sep(text, k) # 0})
    IN  IF h = 0 THEN <<text>>
        ELSE <<SubSeq(text, 1, h - 1)>>
             \o nep_sem_parts(SubSeq(text, Skip(text, nep_sem_sep(text, h) + 1), Len(text)))

\* The subject lines of one part, in order
nep_part_rows(part) == SelectSeq(Lines(part), nep_is_row)

\* The records of the lines of the parts from the k-th on, each with its
\* sem_idx
RECURSIVE nep_rows_from(_, _, _)
nep_rows_from(parts, k, subject_map) ==
    IF k > Len(parts) THEN <<>>
    ELSE LET lines == nep_part_rows(parts[k])
         IN  [j \in 1..Len(lines) |-> [sem_idx |-> k - 1, rec |-> nep_row(lines[j], subject_map)]]
             \o nep_rows_from(parts, k + 1, subject_map)

\* for sem_idx, part in enumerate(sem_parts[1:], 1)
nep_rows(block, subject_map) == nep_rows_from(nep_sem_parts(block), 2, subject_map)

\* sem1_subjects takes the rows of sem_idx 1, sem2_subjects all the others
RECURSIVE NepSubjects(_, _)
NepSubjects(rows, first) ==
    IF rows = <<>> THEN <<>>
    ELSE (IF (Head(rows).sem_idx = 1) = first THEN <<Head(rows).rec>> ELSE <<>>)
         \o NepSubjects(Tail(rows), first)

\* all_grades
nep_all_grades(block, subject_map) ==
    LET rows == nep_rows(block, subject_map)
    IN  [k \in 1..Len(rows) |-> rows[k].rec.grd]

\* re.search(r"(First Year (?:Result|Total Credits Earned)\s*:\s*.*?)(?=\n|$)",
\* block_text): the tokens of group(1).upper(), <<>> when there is no match
nep_fy_colon(block, i) ==
    IF ColonAfter(block, i, <<"First", "Year", "Result">>) # 0
    THEN ColonAfter(block, i, <<"First", "Year", "Result">>)
    ELSE ColonAfter(block, i, <<"First", "Year", "Total", "Credits", "Earned">>)

nep_fy_text(block) ==
    LET i == FirstOf({k \in 1..Len(block) : nep_fy_colon(block, k) # 0})
        s == Skip(block, nep_fy_colon(block, i) + 1)
        e == FirstOf({k \in s..Len(block) : block[k] = NL})
        last == IF e = 0 THEN Len(block) ELSE e - 1
    IN  IF i = 0 THEN <<>>
        ELSE [k \in 1..(last - i + 1) |-> Upper(block[i + k - 1])]

\* The grades that make fail_exists
FailGradesNep == {"F", "FFF", "FAIL"}

\* A resolver that reads the summary line alone and never the grades
nep_result_from_summary(fy_text, all_grades) ==
    IF LineContains(fy_text, "44/44") THEN "PASS"
    ELSE IF LineContains(fy_text, "A.T.K.T") THEN "FAIL A.T.K.T."
    ELSE "FAIL"

\* Final Result Determination Logic
nep_result(fy_text, all_grades) ==
    LET fail_exists == \E k \in 1..Len(all_grades) : all_grades[k] \in FailGradesNep
    IN  IF LineContains(fy_text, "44/44") \/ (~fail_exists /\ Len(all_grades) > 0)
        THEN "PASS"
        ELSE IF LineContains(fy_text, "A.T.K.T") THEN "FAIL A.T.K.T."
        ELSE "FAIL"

\* Determine Dashboard SGPA (Prefers Semester 2 data)
nep_dashboard_sgpa(block) == first_sgpa(block, <<"Second", "First">>, FALSE)

\* parse_nep_block(block_text, subject_map): the record, or None (names,
\* summaries and totals left out)
parse_nep_block(block, subject_map) ==
    LET rows == nep_rows(block, subject_map)
        fy_text == nep_fy_text(block)
    IN  IF nep_prn_match(block) = "" \/ nep_seat_match(block) = "" THEN None
        ELSE [prn |-> nep_prn_match(block),
              seat_no |-> nep_seat_match(block),
              sem1_subjects |-> NepSubjects(rows, TRUE),
              sem2_subjects |-> NepSubjects(rows, FALSE),
              dashboard_sgpa |-> nep_dashboard_sgpa(block),
              fy_total_msg |-> JoinSp(fy_text),
              result |-> nep_result(fy_text, nep_all_grades(block, subject_map)),
              cgpa |-> "-",
              final_grade |-> "-"]

\* One pass of main's loop over the blocks of a page
nep_block(block, subject_map) ==
    IF ~ LineContainsUpper(block, "SEMESTER") THEN None
    ELSE parse_nep_block(block, subject_map)

(***************************************************************************)
(* parser.py: parse_gazette_block                                          *)
(***************************************************************************)
\* (\d{4,}) and (\d{10,}) of the profile pattern
SeatDigits == 4

PrnDigits == 10

\* (\d{5}) of the subject pattern
CodeDigits == 5

\* re.search(r"(\d{4,})\s+(.+?)\s+([MF])\s+(\d{10,})", block_text): the
\* positions <<seat, sex, prn>> of the leftmost match, <<>> if there is none.
\* The name is at least one token and stays within a line.
gaz_info_at(block, a, g) ==
    /\ IsDigits(block[a]) /\ Len(block[a]) >= SeatDigits
    /\ Skip(block, a + 1) < g
    /\ \A k \in Skip(block, a + 1)..(g - 1) :
          block[k] = NL => \A j \in k..(g - 1) : block[j] = NL
    /\ block[g] \in {"M", "F"}
    /\ Skip(block, g + 1) <= Len(block)
    /\ Len(DigitsPrefix(block[Skip(block, g + 1)])) >= PrnDigits

gaz_info_match(block) ==
    LET n == Len(block)
        starts == {a \in 1..n : \E g \in (a + 1)..n : gaz_info_at(block, a, g)}
        a0 == MinOf(starts)
        g0 == MinOf({g \in (a0 + 1)..n : gaz_info_at(block, a0, g)})
    IN  IF starts = {} THEN <<>> ELSE <<a0, g0, Skip(block, g0 + 1)>>

\* Token i is a subject code with its colon, r"(\d{5})\s*:": the position
\* of the colon, 0 if token i is none
gaz_code_colon(text, i) ==
    IF i > Len(text) THEN 0
    ELSE IF IsDigits(text[i]) /\ Len(text[i]) = CodeDigits
            /\ Skip(text, i + 1) <= Len(text) /\ text[Skip(text, i + 1)] = ":"
         THEN Skip(text, i + 1)
    ELSE IF Len(text[i]) = CodeDigits + 1 /\ IsDigits(SubSeq(text[i], 1, CodeDigits))
            /\ Ch(text[i], CodeDigits + 1) = ":"
         THEN i
    ELSE 0

\* The lookahead (?=\s+\d{5}\s*:|\s+GR|$) after token e
gaz_subject_ends(text, e) ==
    LET k == Skip(text, e + 1)
    IN  \/ k > Len(text) /\ Len(text) - e <= 1
        \/ k <= Len(text) /\ (gaz_code_colon(text, k) # 0 \/ StartsWith(text[k], "GR"))

\* The last token of the marks text (.*?) of the subject whose colon is at
\* position c, c if the text is empty, -1 if the pattern does not match
\* there.  The lazy group grows along its line before \s* gives anything
\* back, so it is empty only when nothing on the line ends it
gaz_marks_end(text, c) ==
    LET s == Skip(text, c + 1)
        nl == FirstOf({k \in s..Len(text) : text[k] = NL})
        last == IF nl = 0 THEN Len(text) ELSE nl - 1
        ends == {e \in s..last : gaz_subject_ends(text, e)}
    IN  IF s > Len(text) THEN c
        ELSE IF ends # {} THEN MinOf(ends)
        ELSE IF gaz_code_colon(text, s) # 0 \/ StartsWith(text[s], "GR") THEN c
        ELSE -1

\* Consolidate symbols like '*' or '$' with their marks
RECURSIVE gaz_processed_marks(_)
gaz_processed_marks(marks_part) ==
    IF marks_part = <<>> THEN <<>>
    ELSE IF Head(marks_part) \in {"*", "$"} /\ Len(marks_part) > 1
         THEN <<Head(marks_part) \o " " \o marks_part[2]>>
              \o gaz_processed_marks(Tail(Tail(marks_part)))
    ELSE <<Head(marks_part)>> \o gaz_processed_marks(Tail(marks_part))

\* The record of a regular subject from its code and the tokens of its
\* marks text (at least two)
gaz_subject(code, parts) ==
    LET pm == gaz_processed_marks(Slice(parts, 0, -2))
    IN  [code |-> code,
         internal |-> IF Len(pm) > 0 THEN pm[1] ELSE "-",
         external |-> IF Len(pm) > 1 THEN pm[2] ELSE "-",
         total |-> IF Len(pm) > 2 THEN pm[3] ELSE "-",
         grade |-> At(parts, -2),
         credits |-> At(parts, -1)]

\* subject_regex.finditer(block_text) and the loop over its matches, from
\* token i on
RECURSIVE gaz_regular_subjects(_, _)
gaz_regular_subjects(text, i) ==
    IF i > Len(text) THEN <<>>
    ELSE LET c == gaz_code_colon(text, i)
             e == gaz_marks_end(text, c)
             parts == SubSeq(text, Skip(text, c + 1), e)
         IN  IF c = 0 \/ e = -1 THEN gaz_regular_subjects(text, i + 1)
             ELSE (IF Len(parts) >= 2
                   THEN <<gaz_subject(SubSeq(text[i], 1, CodeDigits), parts)>>
                   ELSE <<>>)
                  \o gaz_regular_subjects(text, Max(e, c) + 1)

\* [A-Z\+]+ on a whole token
IsGradeWord(t) ==
    Len(t) > 0 /\ \A k \in 1..Len(t) : Contains(UpperAlpha, Ch(t, k)) \/ Ch(t, k) = "+"

\* (GR\d-[A-Z]) on a whole token
IsGrCode(t) ==
    /\ Len(t) = 5
    /\ SubSeq(t, 1, 2) = "GR"
    /\ Ch(t, 3) \in Digits
    /\ Ch(t, 4) = "-"
    /\ Contains(UpperAlpha, Ch(t, 5))

\* gr_pattern = r"(GR\d-[A-Z])\s*:\s*!?\s*([A-Z\+]+)\s+(\d+)" at token i:
\* the position of the grade, 0 if there is no match
gaz_gr_grade(text, i) ==
    LET c == Skip(text, i + 1)
        g1 == Skip(text, c + 1)
        g == IF g1 <= Len(text) /\ text[g1] = "!" THEN Skip(text, g1 + 1) ELSE g1
    IN  IF /\ IsGrCode(text[i])
           /\ c <= Len(text) /\ text[c] = ":"
           /\ g <= Len(text) /\ IsGradeWord(text[g])
           /\ DigitsAfter(text, g)
        THEN g ELSE 0

\* The add-on subjects, in order
RECURSIVE gaz_gr_subjects(_, _)
gaz_gr_subjects(text, i) ==
    IF i > Len(text) THEN <<>>
    ELSE IF gaz_gr_grade(text, i) = 0 THEN gaz_gr_subjects(text, i + 1)
    ELSE LET g == gaz_gr_grade(text, i)
         IN  <<[code |-> text[i], internal |-> "-", external |-> "-", total |-> "-",
                grade |-> text[g],
                credits |-> DigitsPrefix(text[Skip(text, g + 1)])]>>
             \o gaz_gr_subjects(text, Skip(text, g + 1) + 1)

gaz_subjects(block) == gaz_regular_subjects(block, 1) \o gaz_gr_subjects(block, 1)

\* re.search(r"CGPA\s*:\s*([\d\.]+)", block_text): group 1, "" if no match
gaz_cgpa_match(block) ==
    LET ok(k) == /\ ColonAfter(block, k, <<"CGPA">>) # 0
                 /\ Skip(block, ColonAfter(block, k, <<"CGPA">>) + 1) <= Len(block)
                 /\ NumberPrefix(block[Skip(block, ColonAfter(block, k, <<"CGPA">>) + 1)]) # ""
        i == FirstOf({k \in 1..Len(block) : ok(k)})
    IN  IF i = 0 THEN ""
        ELSE NumberPrefix(block[Skip(block, ColonAfter(block, i, <<"CGPA">>) + 1)])

\* The alternatives of fail_match, in their order, at token i (re.IGNORECASE)
FailAlt1(block, i) ==
    /\ Upper(block[i]) = "FAIL"
    /\ Skip(block, i + 1) <= Len(block)
    /\ StartsWith(Upper(block[Skip(block, i + 1)]), "A.T.K.T.")

FailAlt2(block, i) ==
    /\ ColonAfterUpper(block, i, <<"RESULT">>) # 0
    /\ Skip(block, ColonAfterUpper(block, i, <<"RESULT">>) + 1) <= Len(block)
    /\ StartsWith(Upper(block[Skip(block, ColonAfterUpper(block, i, <<"RESULT">>) + 1)]), "FAIL")

FailAlt3(block, i) ==
    /\ Upper(block[i]) = "FAIL"
    /\ Skip(block, i + 1) <= Len(block)
    /\ block[Skip(block, i + 1)] = "$"
    /\ Skip(block, Skip(block, i + 1) + 1) <= Len(block)
    /\ StartsWith(block[Skip(block, Skip(block, i + 1) + 1)], "0.1")

\* fail_match.group(1).upper() of the leftmost match, "" if there is none
gaz_fail_status(block) ==
    LET i == FirstOf({k \in 1..Len(block) :
                        FailAlt1(block, k) \/ FailAlt2(block, k) \/ FailAlt3(block, k)})
    IN  IF i = 0 THEN ""
        ELSE IF FailAlt1(block, i) THEN "FAIL A.T.K.T."
        ELSE IF FailAlt2(block, i) THEN "RESULT : FAIL"
        ELSE "FAIL $ 0.1"

\* Section 4 without the step that turns a CGPA figure into PASS
gaz_result_no_cgpa(block) ==
    LET status_text == gaz_fail_status(block)
    IN  IF status_text # ""
        THEN (IF Contains(status_text, "A.T.K.T") THEN "FAIL A.T.K.T." ELSE "FAIL")
        ELSE "FAIL"

\* Section 4: FINAL RESULTS & RESULT VALIDATION
gaz_result(block) ==
    LET status_text == gaz_fail_status(block)
    IN  IF status_text # ""
        THEN (IF Contains(status_text, "A.T.K.T") THEN "FAIL A.T.K.T." ELSE "FAIL")
        ELSE IF gaz_cgpa_match(block) # "" THEN "PASS"
        ELSE "FAIL"

\* parse_gazette_block(block_text): the record, or None (name, gender, SGPA,
\* totals and notes left out)
parse_gazette_block(block) ==
    LET info_match == gaz_info_match(block)
        cgpa_match == gaz_cgpa_match(block)
    IN  IF info_match = <<>> THEN None
        ELSE [seat_no |-> block[info_match[1]],
              prn |-> DigitsPrefix(block[info_match[3]]),
              subjects |-> gaz_subjects(block),
              cgpa |-> IF cgpa_match = "" THEN "-" ELSE cgpa_match,
              result |-> gaz_result(block)]

\* block.strip(): whether anything but whitespace is left
IsBlank(block) == \A k \in 1..Len(block) : block[k] = NL

\* "SEAT NO." in block
HasSeatNoHeading(block) ==
    \E k \in 1..(Len(block) - 1) :
        EndsWith(block[k], "SEAT") /\ StartsWith(block[k + 1], "NO.")

\* One pass of analyze_gazette_pattern's loop over student_blocks
gazette_block(block) ==
    IF IsBlank(block) \/ HasSeatNoHeading(block) THEN None
    ELSE parse_gazette_block(block)

(***************************************************************************)
(* extract_header_metadata of the three parsers.  The header text is a     *)
(* string and the patterns are matched on its characters.                  *)
(***************************************************************************)
\* [A-Z]{4} and \d{6,10} of the Puncode pattern
PunLetters == 4

PunDigitsMin == 6

PunDigitsMax == 10

\* \d{4} of the bracketed college code, of a year and of a pattern year
CodeYearDigits == 4

MaxOf(S) == CHOOSE x \in S : \A y \in S : x >= y

\* The text of a page from its tokens
RECURSIVE Render(_)
Render(text) ==
    IF text = <<>> THEN ""
    ELSE IF Len(text) = 1 THEN text[1]
    ELSE IF text[1] = NL \/ text[2] = NL THEN text[1] \o Render(Tail(text))
    ELSE text[1] \o " " \o Render(Tail(text))

\* Character i of s is one \s matches
IsWs(s, i) == i >= 1 /\ i <= Len(s) /\ Ch(s, i) \in {" ", "\n"}

\* The position \s* reaches from i when it takes all it can
RECURSIVE SkipWs(_, _)
SkipWs(s, i) == IF IsWs(s, i) THEN SkipWs(s, i + 1) ELSE i

\* The literal w stands at position i of s
HasAt(s, i, w) == i >= 1 /\ i + Len(w) - 1 <= Len(s) /\ SubSeq(s, i, i + Len(w) - 1) = w

\* \d{n} at position i
DigitsAt(s, i, n) ==
    i >= 1 /\ i + n - 1 <= Len(s) /\ \A k \in i..(i + n - 1) : Ch(s, k) \in Digits

\* The position of the first line break at or after i, Len(s) + 1 if none:
\* as far as "." can go from i
LineEnd(s, i) ==
    LET nl == {p \in i..Len(s) : Ch(s, p) = "\n"}
    IN  IF nl = {} THEN Len(s) + 1 ELSE MinOf(nl)

\* $ without re.MULTILINE at position p: the end, or the last line break
AtEnd(s, p) == p = Len(s) + 1 \/ (p = Len(s) /\ Ch(s, p) = "\n")

\* re.sub(r'\s+', ' ', s)
RECURSIVE Collapse(_)
Collapse(s) ==
    IF Len(s) = 0 THEN s
    ELSE IF IsWs(s, 1) THEN " " \o Collapse(From(s, SkipWs(s, 1)))
    ELSE LET e == MinOf({p \in 2..(Len(s) + 1) : p = Len(s) + 1 \/ IsWs(s, p)})
         IN  SubSeq(s, 1, e - 1) \o Collapse(From(s, e))

\* s.rstrip(',')
RECURSIVE RstripComma(_)
RstripComma(s) ==
    IF Len(s) > 0 /\ Ch(s, Len(s)) = "," THEN RstripComma(SubSeq(s, 1, Len(s) - 1)) ELSE s

\* re.search(r"Puncode\s*:\s*([A-Z]{4}\d{lo,hi})", text, re.IGNORECASE):
\* <<group 1>>, <<>> if there is no match
puncode_match(s, lo, hi) ==
    LET u == Upper(s)
        code(i) == SkipWs(s, SkipWs(s, i + 7) + 1)
        ok(i) == /\ HasAt(u, i, "PUNCODE")
                 /\ HasAt(s, SkipWs(s, i + 7), ":")
                 /\ code(i) + PunLetters - 1 <= Len(s)
                 /\ \A k \in 0..(PunLetters - 1) : Contains(UpperAlpha, Ch(u, code(i) + k))
                 /\ DigitsAt(s, code(i) + PunLetters, lo)
        i0 == FirstOf({i \in 1..Len(s) : ok(i)})
        c == code(i0)
        digits == DigitsPrefix(SubSeq(s, c + PunLetters, Min(Len(s), c + PunLetters + hi - 1)))
    IN  IF i0 = 0 THEN <<>> ELSE <<SubSeq(s, c, c + PunLetters - 1) \o digits>>

\* The pattern of extract_header_metadata, with \d{6,10}
pun_match(s) == puncode_match(s, PunDigitsMin, PunDigitsMax)

\* (?:BACHELOR|MASTER)\s+OF\s+ under re.IGNORECASE at position i of s (u is
\* s in upper case): the position after OF, 0 if it does not match there
course_head(s, u, i) ==
    LET w == IF HasAt(u, i, "BACHELOR") THEN 8 ELSE IF HasAt(u, i, "MASTER") THEN 6 ELSE 0
        o == SkipWs(s, i + w)
    IN  IF w # 0 /\ o > i + w /\ HasAt(u, o, "OF") /\ IsWs(s, o + 2) THEN o + 2 ELSE 0

\* parser_sy: the course pattern, <<group 1>>, <<>> if there is no match.  The group runs over
\* line breaks to the first position one of the lookaheads holds at
sy_course_match(s) ==
    LET u == Upper(s)
        i0 == FirstOf({i \in 1..Len(s) : course_head(s, u, i) # 0})
        b == SkipWs(s, course_head(s, u, i0))
        paren(p) == LET q == SkipWs(s, p)
                    IN  \/ HasAt(u, q, "(REV")
                        \/ (HasAt(s, q, "(20") /\ DigitsAt(s, q + 3, 2))
        year(p) == LET q == SkipWs(s, p)
                       d == IF HasAt(s, q, "(") THEN q + 1 ELSE q
                   IN  /\ DigitsAt(s, d, CodeYearDigits)
                       /\ HasAt(u, SkipWs(s, d + CodeYearDigits), "PATTERN")
        stop(p) == \/ paren(p) \/ year(p)
                   \/ HasAt(u, p, "COLLEGE LEDGER")
                   \/ HasAt(s, p, "\n\n")
                   \/ AtEnd(s, p)
    IN  IF i0 = 0 THEN <<>>
        ELSE <<SubSeq(s, i0, MinOf({p \in b..(Len(s) + 1) : stop(p)}) - 1)>>

\* parser_sy: re.search(r"Puncode\s*:.*?\]\s*(.*?)(?=\n|$)", text,
\* re.IGNORECASE), <<group 1>>, <<>> if there is no match
sy_college_match(s) ==
    LET u == Upper(s)
        colon(i) == SkipWs(s, i + 7)
        close(i) == FirstOf({r \in (colon(i) + 1)..(LineEnd(s, colon(i) + 1) - 1) :
                               Ch(s, r) = "]"})
        ok(i) == HasAt(u, i, "PUNCODE") /\ HasAt(s, colon(i), ":") /\ close(i) # 0
        i0 == FirstOf({i \in 1..Len(s) : ok(i)})
        g == SkipWs(s, close(i0) + 1)
    IN  IF i0 = 0 THEN <<>> ELSE <<SubSeq(s, g, LineEnd(s, g) - 1)>>

\* \[\d{4}\] at position i
code_at(s, i) == HasAt(s, i, "[") /\ DigitsAt(s, i + 1, CodeYearDigits)
                    /\ HasAt(s, i + 1 + CodeYearDigits, "]")

\* The first position from p on whose character [A-Z\s,] does not match
class_run(s, p) ==
    MinOf({q \in p..(Len(s) + 1) :
             \/ q = Len(s) + 1
             \/ ~(Contains(UpperAlpha, Ch(s, q)) \/ IsWs(s, q) \/ Ch(s, q) = ",")})

\* parser_sy: the fallback college pattern, <<group 1>>, <<>> if there is no match.  The run
\* [A-Z\s,]+ takes all it can and gives back to the last keyword it covers
sy_college_fallback(s) ==
    LET keywords == {"COLLEGE", "INSTITUTE", "ARTS", "SCIENCE", "COMMERCE"}
        g(i) == SkipWs(s, i + CodeYearDigits + 2)
        ks(i) == {k \in (g(i) + 2)..class_run(s, g(i) + 1) :
                    \E w \in keywords : HasAt(s, k, w)}
        ok(i) == /\ code_at(s, i)
                 /\ g(i) <= Len(s) /\ Contains(UpperAlpha, Ch(s, g(i)))
                 /\ ks(i) # {}
        i0 == FirstOf({i \in 1..Len(s) : ok(i)})
        k0 == MaxOf(ks(i0))
        w0 == CHOOSE w \in keywords : HasAt(s, k0, w)
    IN  IF i0 = 0 THEN <<>> ELSE <<SubSeq(s, g(i0), LineEnd(s, k0 + Len(w0)) - 1)>>

\* metadata as extract_header_metadata of parser_nep and parser_sy starts it
UnknownMetadata ==
    [pun_code |-> "Unknown", course_name |-> "Unknown", college_name |-> "Unknown"]

\* parser_sy.extract_header_metadata(pdf), from the texts of the pages
sy_extract_header_metadata(pages) ==
    LET header_text == IF Len(pages) = 0 THEN ""
                       ELSE IF Len(pages) = 1 THEN pages[1]
                       ELSE pages[1] \o pages[2]
        pun == pun_match(header_text)
        course == sy_course_match(header_text)
        college_match == sy_college_match(header_text)
        fallback == sy_college_fallback(header_text)
        college == IF college_match = <<>> THEN "Unknown"
                   ELSE RstripComma(Strip(college_match[1]))
    IN  IF header_text = "" THEN UnknownMetadata
        ELSE [pun_code |-> IF pun = <<>> THEN "Unknown" ELSE pun[1],
              course_name |-> IF course = <<>> THEN "Unknown"
                              ELSE Strip(Collapse(course[1])),
              college_name |-> IF college \in {"Unknown", ""} /\ fallback # <<>>
                               THEN RstripComma(Strip(fallback[1]))
                               ELSE college]

\* parser_nep: re.search(r"PUNE-\d{3}\s*\d{3}\s*\n(.*?)\nCollege Ledger",
\* text, re.DOTALL), <<group 1>>, <<>> if there is no match
nep_course_match(s) ==
    LET j(i) == SkipWs(s, i + 8) + 3
        ledger(p) == HasAt(s, p, "\nCollege Ledger")
        nls(i) == {n \in j(i)..(SkipWs(s, j(i)) - 1) :
                     Ch(s, n) = "\n" /\ \E p \in (n + 1)..Len(s) : ledger(p)}
        ok(i) == /\ HasAt(s, i, "PUNE-") /\ DigitsAt(s, i + 5, 3)
                 /\ DigitsAt(s, SkipWs(s, i + 8), 3)
                 /\ nls(i) # {}
        i0 == FirstOf({i \in 1..Len(s) : ok(i)})
        n0 == MaxOf(nls(i0))
    IN  IF i0 = 0 THEN <<>>
        ELSE <<SubSeq(s, n0 + 1, MinOf({p \in (n0 + 1)..Len(s) : ledger(p)}) - 1)>>

\* parser_nep: re.search(r"(BACHELOR|MASTER)\s+OF\s+.*?(?=\n)", text,
\* re.IGNORECASE), <<group 0>>, <<>> if there is no match
nep_course_fallback(s) ==
    LET u == Upper(s)
        a(i) == course_head(s, u, i)
        starts(i) == {b \in (a(i) + 1)..SkipWs(s, a(i)) : LineEnd(s, b) <= Len(s)}
        ok(i) == a(i) # 0 /\ starts(i) # {}
        i0 == FirstOf({i \in 1..Len(s) : ok(i)})
    IN  IF i0 = 0 THEN <<>> ELSE <<SubSeq(s, i0, LineEnd(s, MaxOf(starts(i0))) - 1)>>

\* parser_nep: re.search(r"\[\d{4}\]\s*(.*?)(?=\n|\[)", text): <<group 1>>,
\* <<>> if there is no match
nep_college_match(s) ==
    LET stops(g) == {p \in g..Len(s) : Ch(s, p) \in {"\n", "["}}
        starts(i) == {g \in (i + CodeYearDigits + 2)..SkipWs(s, i + CodeYearDigits + 2) :
                        stops(g) # {}}
        ok(i) == code_at(s, i) /\ starts(i) # {}
        i0 == FirstOf({i \in 1..Len(s) : ok(i)})
        g0 == MaxOf(starts(i0))
    IN  IF i0 = 0 THEN <<>> ELSE <<SubSeq(s, g0, MinOf(stops(g0)) - 1)>>

\* parser_nep.extract_header_metadata(pdf), from the texts of the pages;
\* pdf.pages[0] of a document without pages raises inside the try
nep_extract_header_metadata(pages) ==
    LET first_page_text == pages[1]
        pun == pun_match(first_page_text)
        course == nep_course_match(first_page_text)
        course_fallback == nep_course_fallback(first_page_text)
        college == nep_college_match(first_page_text)
    IN  IF Len(pages) = 0 THEN UnknownMetadata
        ELSE IF first_page_text = "" THEN UnknownMetadata
        ELSE [pun_code |-> IF pun = <<>> THEN "Unknown" ELSE pun[1],
              course_name |-> IF course # <<>> THEN Strip(course[1])
                              ELSE IF course_fallback # <<>> THEN Strip(course_fallback[1])
                              ELSE "Unknown",
              college_name |-> IF college = <<>> THEN "Unknown" ELSE Strip(college[1])]

\* parser.py: re.search(r"RESULT\s+OF\s+THE\s+(.*?)(?=\s+EXAMINATION|$)",
\* text, re.IGNORECASE), <<group 1>>, <<>> if there is no match
gaz_course_match(s) ==
    LET u == Upper(s)
        o(i) == SkipWs(s, i + 6)
        t(i) == SkipWs(s, o(i) + 2)
        a(i) == t(i) + 3
        head(i) == /\ HasAt(u, i, "RESULT") /\ o(i) > i + 6
                   /\ HasAt(u, o(i), "OF") /\ t(i) > o(i) + 2
                   /\ HasAt(u, t(i), "THE")
        exam(p) == IsWs(s, p) /\ HasAt(u, SkipWs(s, p), "EXAMINATION")
        ends(b) == {p \in b..LineEnd(s, b) : exam(p) \/ AtEnd(s, p)}
        starts(i) == {b \in (a(i) + 1)..SkipWs(s, a(i)) : ends(b) # {}}
        ok(i) == head(i) /\ starts(i) # {}
        i0 == FirstOf({i \in 1..Len(s) : ok(i)})
        b0 == MaxOf(starts(i0))
    IN  IF i0 = 0 THEN <<>> ELSE <<SubSeq(s, b0, MinOf(ends(b0)) - 1)>>

\* parser.py: the fallback course pattern
\* r"((?:BACHELOR|MASTER)\s+OF\s+.*?)(?=\s*\(|20\d{2}|$)", <<group 1>>, <<>> if there is no match
gaz_course_fallback(s) ==
    LET u == Upper(s)
        a(i) == course_head(s, u, i)
        stop(p) == \/ HasAt(s, SkipWs(s, p), "(")
                   \/ (HasAt(s, p, "20") /\ DigitsAt(s, p + 2, 2))
                   \/ AtEnd(s, p)
        ends(b) == {p \in b..LineEnd(s, b) : stop(p)}
        starts(i) == {b \in (a(i) + 1)..SkipWs(s, a(i)) : ends(b) # {}}
        ok(i) == a(i) # 0 /\ starts(i) # {}
        i0 == FirstOf({i \in 1..Len(s) : ok(i)})
    IN  IF i0 = 0 THEN <<>> ELSE <<SubSeq(s, i0, MinOf(ends(MaxOf(starts(i0)))) - 1)>>

\* The lookahead \s+PAGE\s*: under re.IGNORECASE at position p
page_ahead(s, u, p) ==
    /\ IsWs(s, p)
    /\ HasAt(u, SkipWs(s, p), "PAGE")
    /\ HasAt(s, SkipWs(s, SkipWs(s, p) + 4), ":")

\* The college pattern without the stop at PAGE: the rest of the line
gaz_college_to_eol(s) ==
    LET a(i) == IF DigitsAt(s, i, 4) /\ IsWs(s, i + 4) THEN i + 4
                ELSE IF DigitsAt(s, i, 3) /\ IsWs(s, i + 3) THEN i + 3
                ELSE 0
        i0 == FirstOf({i \in 1..Len(s) : (i = 1 \/ Ch(s, i - 1) = "\n") /\ a(i) # 0})
        b0 == SkipWs(s, a(i0))
    IN  IF i0 = 0 THEN <<>> ELSE <<SubSeq(s, b0, LineEnd(s, b0) - 1)>>

\* parser.py: re.search(r"^\d{3,4}\s+(.*?)(?=\s+PAGE\s*:|$)", text,
\* re.MULTILINE | re.IGNORECASE), <<group 1>>, <<>> if there is no match
gaz_college_match(s) ==
    LET u == Upper(s)
        a(i) == IF DigitsAt(s, i, 4) /\ IsWs(s, i + 4) THEN i + 4
                ELSE IF DigitsAt(s, i, 3) /\ IsWs(s, i + 3) THEN i + 3
                ELSE 0
        ok(i) == (i = 1 \/ Ch(s, i - 1) = "\n") /\ a(i) # 0
        i0 == FirstOf({i \in 1..Len(s) : ok(i)})
        b0 == SkipWs(s, a(i0))
        ends == {p \in b0..LineEnd(s, b0) : page_ahead(s, u, p) \/ p = LineEnd(s, b0)}
    IN  IF i0 = 0 THEN <<>> ELSE <<SubSeq(s, b0, MinOf(ends) - 1)>>

\* parser.py: the fallback college pattern
\* r"(?:PANCHAVATI|COLLEGE|INSTITUTE).*?(?=\s+PAGE\s*:|$)", <<group 0>>, <<>> if there is no match
gaz_college_fallback(s) ==
    LET u == Upper(s)
        w(i) == IF HasAt(u, i, "PANCHAVATI") THEN 10
                ELSE IF HasAt(u, i, "COLLEGE") THEN 7
                ELSE IF HasAt(u, i, "INSTITUTE") THEN 9
                ELSE 0
        ends(i) == {p \in (i + w(i))..LineEnd(s, i + w(i)) :
                      page_ahead(s, u, p) \/ AtEnd(s, p)}
        ok(i) == w(i) # 0 /\ ends(i) # {}
        i0 == FirstOf({i \in 1..Len(s) : ok(i)})
    IN  IF i0 = 0 THEN <<>> ELSE <<SubSeq(s, i0, MinOf(ends(i0)) - 1)>>

\* None as the value of a field that holds a string otherwise: a string no
\* text of a document can give
NoneValue == "<None>"

\* metadata as extract_header_metadata of parser.py starts it
GazetteUnknownMetadata ==
    [pun_code |-> NoneValue, course_name |-> "Unknown", college_name |-> "Unknown"]

\* parser.extract_header_metadata(pdf), from the texts of the pages
gaz_extract_header_metadata(pages) ==
    LET first_page_text == pages[1]
        course == gaz_course_match(first_page_text)
        course_fallback == gaz_course_fallback(first_page_text)
        college == gaz_college_match(first_page_text)
        fallback == gaz_college_fallback(first_page_text)
    IN  IF Len(pages) = 0 THEN GazetteUnknownMetadata
        ELSE IF first_page_text = "" THEN GazetteUnknownMetadata
        ELSE [pun_code |-> NoneValue,
              course_name |-> IF course # <<>> THEN Strip(course[1])
                              ELSE IF course_fallback # <<>> THEN Strip(course_fallback[1])
                              ELSE "Unknown",
              college_name |-> IF college # <<>> THEN Strip(college[1])
                               ELSE IF fallback # <<>> THEN Strip(fallback[1])
                               ELSE "Unknown"]

\* extract_header_metadata of the parser of a pattern
extract_header_metadata(p, pages) ==
    CASE p = "sy" -> sy_extract_header_metadata(pages)
      [] p = "nep" -> nep_extract_header_metadata(pages)
      [] p = "gazette" -> gaz_extract_header_metadata(pages)

(***************************************************************************)
(* extract_subject_mapping of parser_sy and parser_nep, on the texts of    *)
(* the pages                                                               *)
(***************************************************************************)
\* {3,10} and {3,15} of the subject code patterns, and the pages scanned
SyCodeMax == 10

NepCodeMax == 15

PagesToScan == 5

\* text.split('\n') for a text given as a string
RECURSIVE TextLines(_)
TextLines(s) ==
    IF LineEnd(s, 1) > Len(s) THEN <<s>>
    ELSE <<SubSeq(s, 1, LineEnd(s, 1) - 1)>> \o TextLines(From(s, LineEnd(s, 1) + 1))

\* mapping[code] = name
SetItem(mapping, code, name) ==
    [c \in DOMAIN mapping \cup {code} |-> IF c = code THEN name ELSE mapping[c]]

\* re.sub(r'[:\-\s!]+$', '', s)
RECURSIVE RstripMarks(_)
RstripMarks(s) ==
    IF Len(s) > 0 /\ Ch(s, Len(s)) \in {":", "-", " ", "\n", "!"}
    THEN RstripMarks(SubSeq(s, 1, Len(s) - 1)) ELSE s

\* metadata_backup as extract_subject_mapping starts it
NoBackup == [pun_code |-> NoneValue, course_name |-> NoneValue, college_name |-> NoneValue]

\* The backup metadata after a line of the scan
sy_backup_line(backup, line) ==
    LET u == Upper(line)
        pun_m == puncode_match(line, 1, Len(line))
        close == FirstOf({r \in 1..Len(line) : Ch(line, r) = "]"})
        i0 == FirstOf({i \in 1..Len(line) : course_head(line, u, i) # 0})
        b == SkipWs(line, course_head(line, u, i0))
        stop(p) == \/ HasAt(u, SkipWs(line, p), "(REV")
                   \/ (HasAt(line, SkipWs(line, p), "(20") /\ DigitsAt(line, SkipWs(line, p) + 3, 2))
                   \/ HasAt(u, SkipWs(line, p), "PATTERN")
                   \/ p = Len(line) + 1
        e == MinOf({p \in b..(Len(line) + 1) : stop(p)})
        with_pun == IF Contains(line, "Puncode") /\ pun_m # <<>>
                    THEN [backup EXCEPT !.pun_code = pun_m[1]] ELSE backup
        with_college == IF Contains(line, "Puncode") /\ close # 0
                        THEN [with_pun EXCEPT
                                !.college_name = RstripComma(Strip(From(line, close + 1)))]
                        ELSE with_pun
    IN  IF (Contains(u, "BACHELOR") \/ Contains(u, "MASTER")) /\ i0 # 0
        THEN [with_college EXCEPT !.course_name = Strip(SubSeq(line, i0, e - 1))]
        ELSE with_college

\* The mapping after a captured line: re.match(r"^\s*([A-Z0-9-]{3,10})\s+(.+)$",
\* line.strip()) and the assignment
sy_map_row(mapping, line) ==
    LET row == Strip(line)
        toks == Split(row)
        code == toks[1]
    IN  IF /\ Len(toks) >= 2
           /\ KeepCodeChars(code) = code /\ Len(code) >= MinCodeLen /\ Len(code) <= SyCodeMax
        THEN SetItem(mapping, code,
                     RstripMarks(Strip(From(row, SkipWs(row, Len(code) + 1)))))
        ELSE mapping

\* The loop over the lines of a page; acc holds capture, mapping and backup,
\* seen is acc after the backup search of the line
RECURSIVE sy_map_lines(_, _), sy_map_line(_, _, _)
sy_map_line(acc, seen, lines) ==
    IF Contains(Head(lines), "Paper List")
    THEN sy_map_lines([seen EXCEPT !.capture = TRUE], Tail(lines))
    ELSE IF Contains(Head(lines), "Semester:") THEN sy_map_lines(seen, Tail(lines))
    ELSE IF Contains(Head(lines), "PRN:") THEN seen
    ELSE IF acc.capture
         THEN sy_map_lines([seen EXCEPT !.mapping = sy_map_row(acc.mapping, Head(lines))],
                           Tail(lines))
    ELSE sy_map_lines(seen, Tail(lines))

sy_map_lines(acc, lines) ==
    IF lines = <<>> THEN acc
    ELSE sy_map_line(acc, [acc EXCEPT !.backup = sy_backup_line(acc.backup, Head(lines))],
                     lines)

\* The loop over the first pages, from page k on
RECURSIVE sy_map_pages(_, _, _)
sy_map_pages(acc, pages, k) ==
    IF k > Min(PagesToScan, Len(pages)) THEN acc
    ELSE IF pages[k] = "" THEN sy_map_pages(acc, pages, k + 1)
    ELSE sy_map_pages(sy_map_lines([acc EXCEPT !.capture = FALSE], TextLines(pages[k])),
                      pages, k + 1)

\* return mapping, metadata_backup
sy_scanned(acc) == [mapping |-> acc.mapping, backup |-> acc.backup]

\* parser_sy.extract_subject_mapping(pdf): mapping and metadata_backup
sy_extract_subject_mapping(pages) ==
    sy_scanned(sy_map_pages([capture |-> FALSE, mapping |-> <<>>, backup |-> NoBackup],
                            pages, 1))

\* text.find("PRN:"): the position, 0 if it is not there
FindPrn(s) == FirstOf({i \in 1..Len(s) : HasAt(s, i, "PRN:")})

\* The first position from p on whose character [A-Z0-9-] does not match
code_run(s, p) ==
    MinOf({q \in p..(Len(s) + 1) : q = Len(s) + 1 \/ KeepCodeChars(Ch(s, q)) = ""})

\* re.findall(r"^([A-Z0-9-]{3,15})\s+([A-Za-z].*)", area, re.MULTILINE) and
\* the loop over its rows, from the line that starts at position i on
RECURSIVE nep_map_rows(_, _, _)
nep_map_rows(mapping, s, i) ==
    IF i > Len(s) THEN mapping
    ELSE LET r == code_run(s, i)
             g == SkipWs(s, r)
         IN  IF /\ r - i >= MinCodeLen /\ r - i <= NepCodeMax
                /\ IsWs(s, r)
                /\ g <= Len(s) /\ Contains(UpperAlpha, Upper(Ch(s, g)))
             THEN nep_map_rows(SetItem(mapping, SubSeq(s, i, r - 1),
                                       Strip(SubSeq(s, g, LineEnd(s, g) - 1))),
                               s, LineEnd(s, g) + 1)
             ELSE nep_map_rows(mapping, s, LineEnd(s, i) + 1)

\* parser_nep.extract_subject_mapping(pdf), from page k on
RECURSIVE nep_map_pages(_, _, _)
nep_map_pages(mapping, pages, k) ==
    IF k > Len(pages) THEN mapping
    ELSE IF pages[k] = "" THEN nep_map_pages(mapping, pages, k + 1)
    ELSE LET pos == FindPrn(pages[k])
             area == IF pos = 0 THEN pages[k] ELSE SubSeq(pages[k], 1, pos - 1)
         IN  IF pos # 0 THEN nep_map_rows(mapping, area, 1)
             ELSE nep_map_pages(nep_map_rows(mapping, area, 1), pages, k + 1)

nep_extract_subject_mapping(pages) == nep_map_pages(<<>>, pages, 1)

(***************************************************************************)
(* State                                                                   *)
(***************************************************************************)
VARIABLES
    row_parser,     \* the row tokenizer applied: "sy" or "nep"
    row_line,       \* its argument: the tokens of one line
    row_out,        \* what it returned: a record, or None
    row_pc,         \* "idle", "call" or "done"
    blk_parser,     \* the block parser applied: "sy", "nep" or "gazette"
    blk_text,       \* its argument: the text of one student block
    blk_out,        \* what it produced: a student record, or None
    blk_pc,         \* "idle", "call" or "done"
    pattern,        \* the parser whose main runs: "sy", "nep" or "gazette"
    pdf,            \* the document: whether it opens, and the text of its pages
    pc,             \* main's position: "idle", "open", "loop" or "done"
    student_blocks, \* the blocks the text was split into
    idx,            \* the block the loop is at
    all_students,   \* the records collected so far
    envelope,       \* what main returned, None before it returns
    metadata,       \* the header metadata of the document, None before it is read
    subject_map,    \* the mapping of subject codes to subject names
    prev,           \* the invocations of main that returned before this one
    hdr_parser,     \* the parser whose extract_header_metadata is applied
    hdr_pages,      \* its argument: the texts of the pages of the document
    hdr_out,        \* the metadata it returned, None before it returns
    hdr_pc,         \* "idle", "call" or "done"
    store,          \* PDF_DATA_STORE of app.py
    class_year,     \* the class_year field of the upload form being handled
    app_pc,         \* analyze's position: "idle", or "parsing" while main runs
    requests        \* the requests to /analyze handled so far

row_vars == <<row_parser, row_line, row_out, row_pc>>

blk_vars == <<blk_parser, blk_text, blk_out, blk_pc>>

main_vars ==
    <<pattern, pdf, pc, student_blocks, idx, all_students, envelope, prev, metadata, subject_map>>

hdr_vars == <<hdr_parser, hdr_pages, hdr_out, hdr_pc>>

app_vars == <<store, class_year, app_pc, requests>>

vars == <<row_vars, blk_vars, main_vars, hdr_vars, app_vars>>

RowIdle ==
    /\ row_parser = "sy"
    /\ row_line = <<>>
    /\ row_out = None
    /\ row_pc = "idle"

BlkIdle ==
    /\ blk_parser = "sy"
    /\ blk_text = <<>>
    /\ blk_out = None
    /\ blk_pc = "idle"

HdrIdle ==
    /\ hdr_parser = "sy"
    /\ hdr_pages = <<>>
    /\ hdr_out = None
    /\ hdr_pc = "idle"

MainIdle ==
    /\ pattern = "sy"
    /\ pdf = [opens |-> TRUE, pages |-> <<>>]
    /\ pc = "idle"
    /\ student_blocks = <<>>
    /\ idx = 0
    /\ all_students = <<>>
    /\ envelope = None
    /\ prev = <<>>
    /\ metadata = None
    /\ subject_map = <<>>

\* PDF_DATA_STORE = {'all_students': [], 'college_info': {}, ...}
EmptyDict == [k \in {} |-> ""]

PDF_DATA_STORE ==
    [all_students |-> <<>>,
     college_info |-> EmptyDict,
     display_students |-> <<>>,
     course_display |-> "",
     year_display |-> "",
     stats |-> EmptyDict,
     pattern |-> ""]

AppIdle ==
    /\ store = PDF_DATA_STORE
    /\ class_year = ""
    /\ app_pc = "idle"
    /\ requests = 0

(***************************************************************************)
(* The row tokenizers on their own: one call on one line                   *)
(***************************************************************************)
\* The longest marks region drawn
MaxMarks == 3

\* Tokens of a marks region: values, prefix symbols, absence markers
MarkVocab == {"45", "38", "P", "*", "$", "~", "#", "@", "---", "AB", "AAA"}

MarkValues == {"45", "38"}

RowCodes == {"CS-101", "CODE"}

RowGrades == {"A", "F", "AB", "FFF"}

RowTotals == {<<"83">>, <<"83", "FFF">>, <<"83FFF">>}

RowTails == {<<>>, <<"8">>, <<"8", "32">>}

RECURSIVE SeqsUpTo(_, _)
SeqsUpTo(S, n) ==
    IF n = 0 THEN {<<>>}
    ELSE SeqsUpTo(S, n - 1) \cup {Append(q, x) : q \in {r \in SeqsUpTo(S, n - 1) : Len(r) = n - 1}, x \in S}

\* Rows [code, m1, m2, total.., crd, ern, G, gp.., cp..] over every layout of
\* the columns around the grade
LayoutRows ==
    {<<c>> \o <<"45", "38">> \o t \o <<"4", e, g>> \o tl :
        c \in RowCodes, t \in RowTotals, e \in {"4", "0"}, g \in RowGrades, tl \in RowTails}

\* Rows over every marks region of up to MaxMarks tokens
MarksRows ==
    {<<"CS-101">> \o m \o <<"83", "4", "4", "A", "8", "32">> : m \in SeqsUpTo(MarkVocab, MaxMarks)}

\* Rows with fewer than three tokens between the code and the grade
ShortRows ==
    {<<"CS-101">> \o l \o <<"A", "8", "32", "0", "0">> : l \in SeqsUpTo({"4"}, 2)}

RowLines == LayoutRows \cup MarksRows \cup ShortRows

\* The subject map the rows are resolved against
RowSubjectMap == [c \in {"CS-101"} |-> "Data Structures"]

RowInit ==
    /\ row_parser \in {"sy", "nep"}
    /\ row_line \in RowLines
    /\ row_out = None
    /\ row_pc = "call"
    /\ BlkIdle
    /\ MainIdle
    /\ HdrIdle
    /\ AppIdle

\* parser_sy.parse_marks_row(line, subject_map)
ParseMarksRow ==
    /\ row_pc = "call"
    /\ row_parser = "sy"
    /\ row_out' = parse_marks_row(row_line, RowSubjectMap)
    /\ row_pc' = "done"
    /\ UNCHANGED <<row_parser, row_line, blk_vars, main_vars, hdr_vars, app_vars>>

\* The body of parse_nep_block's loop over the lines of a semester section
ParseNepRow ==
    /\ row_pc = "call"
    /\ row_parser = "nep"
    /\ row_out' = IF nep_is_row(row_line) THEN nep_row(row_line, RowSubjectMap) ELSE None
    /\ row_pc' = "done"
    /\ UNCHANGED <<row_parser, row_line, blk_vars, main_vars, hdr_vars, app_vars>>

RowNext == ParseMarksRow \/ ParseNepRow

SpecRow == RowInit /\ [][RowNext]_vars

(***************************************************************************)
(* Claims on the row tokenizers (under SpecRow)                            *)
(***************************************************************************)
\* A row [code, m1, m2, total, crd, ern, G, gp, cp]: G of the grade
\* vocabulary, the other columns plain numbers
IsNineColumnRow(line) ==
    /\ Len(line) = 9
    /\ line[7] \in valid_grades
    /\ \A k \in {2, 3, 4, 5, 6, 8, 9} : IsDigits(line[k])

\* The record C4 states for such a row
AnchoredAs(line, r) ==
    /\ r # None
    /\ r.grd = line[7]
    /\ r.crd = line[5]
    /\ r.ern = line[6]
    /\ r.total = line[4]
    /\ r.gp = line[8]
    /\ r.cp = line[9]
    /\ r.int_m = line[2]
    /\ r.ext_m = line[3]

SyRowDone == row_pc = "done" /\ row_parser = "sy"

NepRowDone == row_pc = "done" /\ row_parser = "nep"

\* C4 as stated: every row [code, m1, m2, total, crd, ern, G, gp, cp] with G
\* in the grade vocabulary and the other tokens plain numbers is returned
\* by parse_marks_row as a record with grd = G, crd, ern, total, gp, cp equal
\* to their tokens, int_m = m1 and ext_m = m2.
C4_GradeAnchoringAnyCode ==
    (SyRowDone /\ IsNineColumnRow(row_line)) => AnchoredAs(row_line, row_out)

\* C4 as amended: the same, for rows that parse_marks_row does not take for
\* a header or profile line, i.e. whose code token contains none of "CODE",
\* "NAME:", "PRN:" in any letter case.
C4_GradeAnchoring ==
    (SyRowDone /\ IsNineColumnRow(row_line) /\ ~IsHeaderLine(row_line))
        => AnchoredAs(row_line, row_out)

\* C4 witness: the row CS-101 45 38 83 4 4 A 8 32 was parsed and anchored.
C4_Witness ==
    /\ SyRowDone
    /\ row_line = <<"CS-101", "45", "38", "83", "4", "4", "A", "8", "32">>
    /\ AnchoredAs(row_line, row_out)

\* C5 as stated: a prefix symbol s followed by a value token v at the head
\* of the marks region is merged into the column "s v", and the split of
\* that column gives prefix = s and value = v.
C5_PrefixMerge ==
    (SyRowDone /\ row_out # None) =>
        \A s \in PrefixSymbols, v \in MarkValues :
            (Len(marks_tokens(row_line)) >= 2 /\ SubSeq(marks_tokens(row_line), 1, 2) = <<s, v>>)
                => /\ cleaned_columns(marks_tokens(row_line))[1] = s \o " " \o v
                   /\ row_out.p_int = s
                   /\ row_out.int_m = v

\* The marks region of a row, as the parser applied reads it
MarksRegion == IF row_parser = "sy" THEN marks_tokens(row_line) ELSE marks_area(row_line)

\* C6 as stated: "---", "AB" or "AAA" standing as a raw mark token (here the
\* first mark of the row) decomposes to prefix "-" and value "-", in the
\* second-year and in the NEP row tokenizer.
C6_AbsenceSentinel ==
    (row_pc = "done" /\ row_out # None /\ MarksRegion # <<>>
        /\ MarksRegion[1] \in {"---", "AB", "AAA"})
        => (row_out.p_int = "-" /\ row_out.int_m = "-")

\* Every token the parsers name as a grade
GradeVocabulary == valid_grades \cup FailGradesSy \cup FailGradesNep

\* A grade token stands among the last GradeWindow tokens of the line
GradeInWindow(parts) ==
    \E i \in 1..GradeWindow : i < Len(parts) /\ At(parts, -i) \in GradeVocabulary

\* C19: a line gives a subject record only if a token of the grade
\* vocabulary stands within the window at its right end, and the grd of
\* every record a row tokenizer returns is a token of the grade vocabulary.
C19_GradeInVocabulary ==
    (row_pc = "done" /\ row_out # None)
        => (GradeInWindow(row_line) /\ row_out.grd \in GradeVocabulary)

\* The k-th token to the right of the grade of a row, "0" past its end
RightToken(parts, k) ==
    IF grade_index(parts) + k < Len(parts) THEN At(parts, grade_index(parts) + k) ELSE "0"

\* C21 as stated: in every record parse_marks_row returns, the fields to the
\* right of the grade token are earned-credits, grade-point and
\* credit-point in that order, each "0" when it lies past the end of the row.
C21_ThreeRightFields ==
    (SyRowDone /\ row_out # None) =>
        /\ row_out.ern = RightToken(row_line, 1)
        /\ row_out.gp = RightToken(row_line, 2)
        /\ row_out.cp = RightToken(row_line, 3)

\* C21 as amended: in every record parse_marks_row returns, the fields to
\* the right of the grade token are grade-point and credit-point in that
\* order, each "0" when it lies past the end of the row, and earned-credits
\* is the token immediately to the left of the grade.
C21_RightFields ==
    (SyRowDone /\ row_out # None) =>
        /\ row_out.gp = RightToken(row_line, 1)
        /\ row_out.cp = RightToken(row_line, 2)
        /\ row_out.ern = At(row_line, grade_index(row_line) - 1)

\* C21 witness: a row that ends one token after its grade was returned with
\* that token as grade-point and "0" as credit-point.
C21_Witness ==
    /\ SyRowDone
    /\ row_line = <<"CS-101", "45", "38", "83", "4", "0", "A", "8">>
    /\ row_out # None
    /\ row_out.gp = "8"
    /\ row_out.cp = "0"
    /\ row_out.ern = "0"

\* The tokens of a row strictly between its code and its grade
LeftOfGrade(parts) == {parts[k] : k \in 2..grade_index(parts)}

\* C26: in every record parse_marks_row returns, ern, crd and total are
\* tokens standing strictly between the code token and the grade token
\* (total with the FFF mark taken off it); a row with too few tokens left
\* of the grade gives no record.
C26_FieldsLeftOfGrade ==
    (SyRowDone /\ row_out # None) =>
        /\ row_out.ern \in LeftOfGrade(row_line)
        /\ row_out.crd \in LeftOfGrade(row_line)
        /\ \E t \in LeftOfGrade(row_line) : row_out.total \in {t, Remove(t, "FFF")}

\* A mark value: a numeric string or the sentinel "-"
IsMarkValue(v) == v = "-" \/ IsDigits(v)

\* C22: in every record a row tokenizer returns, int_m, ext_m and pr_m are
\* each a numeric string or "-", and a status symbol (*, $, P, ~, #, @)
\* standing before a mark (here the first mark of the row) is kept in the
\* prefix field of that mark, with the mark itself as the value.
C22_MarksAndPrefixes ==
    (row_pc = "done" /\ row_out # None) =>
        /\ IsMarkValue(row_out.int_m)
        /\ IsMarkValue(row_out.ext_m)
        /\ IsMarkValue(row_out.pr_m)
        /\ \A s \in PrefixSymbols, v \in MarkValues :
              (Len(MarksRegion) >= 2 /\ SubSeq(MarksRegion, 1, 2) = <<s, v>>)
                  => (row_out.p_int = s /\ row_out.int_m = v)

(***************************************************************************)
(* The block parsers on their own: one student block, parsed once          *)
(***************************************************************************)
\* The most subject rows a block is drawn with
MaxRows == 2

BlockGrades == {"A", "F", "AB", "FFF"}

RECURSIVE Concat(_)
Concat(texts) == IF texts = <<>> THEN <<>> ELSE Head(texts) \o Concat(Tail(texts))

LedgerRow(g) == <<"CS-101", "45", "38", "83", "4", "4", g, "8", "32", NL>>

\* The subject lines of a ledger block, one per grade of gs
LedgerRows(gs) == Concat([k \in 1..Len(gs) |-> LedgerRow(gs[k])])

GazetteSubject(g) == <<"12345", ":", "45", "38", "83", g, "4", NL>>

GazetteSubjects(gs) == Concat([k \in 1..Len(gs) |-> GazetteSubject(gs[k])])

SyIdentity == <<"PRN:", "720", "SEAT", "NO.:", "101", NL>>

\* The SGPA line of a semester
SgpaLine(label, x) == <<label, "Semester", "SGPA", ":", x, NL>>

\* The SGPA lines of a block: none, the earlier semester's, the later
\* semester's, both
SgpaLines(earlier, later) ==
    {<<>>, SgpaLine(earlier, "7.1"), SgpaLine(later, "8.2"),
     SgpaLine(earlier, "7.1") \o SgpaLine(later, "8.2")}

\* The summary lines a second-year block ends with
SyPhrases ==
    {<<>>} \cup
    {<<"Second", "Year", "Result", ":">> \o r \o <<NL>> :
        r \in {<<"PASS">>, <<"FAIL">>, <<"FAIL", "A.T.K.T.">>}}

SyBlocks ==
    {SyIdentity \o <<"SEMESTER:", "1", NL>> \o LedgerRows(gs) \o sg \o ph :
        gs \in SeqsUpTo(BlockGrades, MaxRows), sg \in SgpaLines("Third", "Fourth"),
        ph \in SyPhrases}

\* The summary lines a NEP block ends with
NepPhrases ==
    {<<>>, <<"First", "Year", "Total", "Credits", "Earned", ":", "44/44", NL>>} \cup
    {<<"First", "Year", "Result", ":">> \o r \o <<NL>> :
        r \in {<<"PASS">>, <<"FAIL">>, <<"FAIL", "A.T.K.T.">>}}

NepBlocks ==
    {SyIdentity \o <<"Semester", ":", "1", NL>> \o LedgerRows(gs) \o sg \o ph :
        gs \in SeqsUpTo(BlockGrades, MaxRows), sg \in SgpaLines("First", "Second"),
        ph \in NepPhrases}

GazetteIdentity == <<"1234", "RAM", "SITA", "M", "1234567890", NL>>

\* The add-on subject line that may close the subject lines of a block
GazetteAddOns == {<<>>, <<"GR6-A", ":", "O", "2", NL>>}

\* The summary lines a gazette block ends with
GazettePhrases ==
    {<<>>,
     <<"CGPA", ":", "7.5", NL>>,
     <<"CGPA", ":", "7.82", NL>>,
     <<"CGPA", ":", "7.82", NL, "RESULT", ":", "FAIL", NL>>,
     <<"RESULT", ":", "FAIL", NL>>,
     <<"FAIL", "A.T.K.T.", NL>>,
     <<"RESULT", ":", "FAIL", "A.T.K.T.", NL>>}

GazetteBlocks ==
    {GazetteIdentity \o GazetteSubjects(gs) \o ao \o ph :
        gs \in SeqsUpTo(BlockGrades, MaxRows), ao \in GazetteAddOns, ph \in GazettePhrases}

BlkInit ==
    /\ blk_parser \in {"sy", "nep", "gazette"}
    /\ blk_text \in (CASE blk_parser = "sy" -> SyBlocks
                       [] blk_parser = "nep" -> NepBlocks
                       [] blk_parser = "gazette" -> GazetteBlocks)
    /\ blk_out = None
    /\ blk_pc = "call"
    /\ RowIdle
    /\ MainIdle
    /\ HdrIdle
    /\ AppIdle

\* parser_sy.main: the body of the loop over student_blocks
ParseSyBlock ==
    /\ blk_pc = "call"
    /\ blk_parser = "sy"
    /\ blk_out' = sy_block(blk_text, RowSubjectMap)
    /\ blk_pc' = "done"
    /\ UNCHANGED <<blk_parser, blk_text, row_vars, main_vars, hdr_vars, app_vars>>

\* parser_nep.main: the body of the loop over the blocks of a page
ParseNepBlock ==
    /\ blk_pc = "call"
    /\ blk_parser = "nep"
    /\ blk_out' = nep_block(blk_text, RowSubjectMap)
    /\ blk_pc' = "done"
    /\ UNCHANGED <<blk_parser, blk_text, row_vars, main_vars, hdr_vars, app_vars>>

\* parser.analyze_gazette_pattern: the body of the loop over student_blocks
ParseGazetteBlock ==
    /\ blk_pc = "call"
    /\ blk_parser = "gazette"
    /\ blk_out' = gazette_block(blk_text)
    /\ blk_pc' = "done"
    /\ UNCHANGED <<blk_parser, blk_text, row_vars, main_vars, hdr_vars, app_vars>>

BlkNext == ParseSyBlock \/ ParseNepBlock \/ ParseGazetteBlock

SpecBlock == BlkInit /\ [][BlkNext]_vars

(***************************************************************************)
(* Claims on the result of a student block (under SpecBlock)               *)
(***************************************************************************)
BlkDone == blk_pc = "done" /\ blk_out # None

\* The grades of the subjects of the emitted record, in order
BlkGrades ==
    CASE blk_parser = "sy" ->
            GradesOf(blk_out.sem1_subjects \o blk_out.sem2_subjects
                     \o blk_out.sem3_subjects \o blk_out.sem4_subjects)
      [] blk_parser = "nep" -> GradesOf(blk_out.sem1_subjects \o blk_out.sem2_subjects)
      [] blk_parser = "gazette" ->
            [k \in 1..Len(blk_out.subjects) |-> blk_out.subjects[k].grade]

\* The fail-class grades of the status-inference property
FailClass == {"F", "FFF", "AB"}

AllPassing == \A k \in 1..Len(BlkGrades) : BlkGrades[k] \notin FailClass

SomeFailing == \E k \in 1..Len(BlkGrades) : BlkGrades[k] \in FailClass

\* The block carries one of the phrases its parser reads a result from
HasResultPhrase ==
    CASE blk_parser = "sy" -> sy_res_match(blk_text)[1]
      [] blk_parser = "nep" -> nep_fy_text(blk_text) # <<>>
      [] blk_parser = "gazette" ->
            gaz_cgpa_match(blk_text) # "" \/ gaz_fail_status(blk_text) # ""

HasAtktPhrase == \E k \in 1..Len(blk_text) : StartsWith(Upper(blk_text[k]), "A.T.K.T")

C8_FailInferred ==
    (BlkDone /\ SomeFailing /\ ~HasResultPhrase) => blk_out.result = "FAIL"

\* The result an explicit "<Year> Result :" statement states:
\* <<present, text>>
StatedResult ==
    CASE blk_parser = "sy" -> sy_res_match(blk_text)
      [] blk_parser = "nep" ->
            LET t == nep_fy_text(blk_text)
            IN  IF Len(t) >= 4 /\ SubSeq(t, 1, 4) = <<"FIRST", "YEAR", "RESULT", ":">>
                THEN <<TRUE, JoinSp(SubSeq(t, 5, Len(t)))>>
                ELSE <<FALSE, "">>
      [] blk_parser = "gazette" -> <<FALSE, "">>

\* C9 as stated: whenever a block carries an explicit result statement, the
\* emitted result is the one stated; the grades decide only when there is
\* no statement.
C9_StatementIsPrimary ==
    (BlkDone /\ StatedResult[1]) => blk_out.result = StatedResult[2]

\* C10 as stated: a block whose text carries an ATKT phrase is never
\* emitted with the plain result "FAIL".
C10_AtktPrecedence ==
    (BlkDone /\ HasAtktPhrase) => blk_out.result # "FAIL"

\* The figure of the first "CGPA : x" statement of the block text, "" if
\* the text has none
StatedCgpa ==
    LET at == {k \in 1..(Len(blk_text) - 2) :
                 /\ blk_text[k] = "CGPA" /\ blk_text[k + 1] = ":"
                 /\ blk_text[k + 2] # NL
                 /\ NumberPrefix(blk_text[k + 2]) = blk_text[k + 2]}
    IN  IF at = {} THEN "" ELSE blk_text[MinOf(at) + 2]

\* A token that marks failure: a fail-class grade or a FAIL word
HasFailToken ==
    \E k \in 1..Len(blk_text) :
        blk_text[k] \in FailClass \/ StartsWith(Upper(blk_text[k]), "FAIL")

\* C11: a gazette block with a matched identity that states "CGPA : x" and
\* carries no token marking failure (no F, FFF or AB grade, no FAIL word) is
\* emitted with result = "PASS" and cgpa = x.
C11_CgpaMeansPass ==
    (BlkDone /\ blk_parser = "gazette" /\ StatedCgpa # "" /\ ~HasFailToken)
        => (blk_out.result = "PASS" /\ blk_out.cgpa = StatedCgpa)

\* C11 witness: the block of the scenario, "CGPA : 7.82" after subjects
\* graded A, came out as PASS with cgpa "7.82".
C11_Witness ==
    /\ BlkDone
    /\ blk_parser = "gazette"
    /\ Len(BlkGrades) >= 1
    /\ AllPassing
    /\ StatedCgpa = "7.82"
    /\ ~HasFailToken
    /\ blk_out.result = "PASS"
    /\ blk_out.cgpa = "7.82"

\* The SGPA figure the block text states for a semester, "" if none
StatedSgpa(label) ==
    LET at == {k \in 1..(Len(blk_text) - 4) :
                 /\ Upper(blk_text[k]) = Upper(label)
                 /\ Upper(blk_text[k + 1]) = "SEMESTER"
                 /\ Upper(blk_text[k + 2]) = "SGPA"
                 /\ blk_text[k + 3] = ":"}
    IN  IF at = {} THEN "" ELSE blk_text[MinOf(at) + 4]

\* The explicit SGPA figure of the latest semester that has one, "" if no
\* semester has one
LatestSgpa ==
    IF StatedSgpa("Fourth") # "" THEN StatedSgpa("Fourth")
    ELSE IF StatedSgpa("Third") # "" THEN StatedSgpa("Third")
    ELSE IF StatedSgpa("Second") # "" THEN StatedSgpa("Second")
    ELSE StatedSgpa("First")

\* C12 as stated: in a record of the second-year or the NEP parser (the two
\* that set dashboard_sgpa), dashboard_sgpa is other than "-" only when the
\* result has PASS in it, and then it is the explicit SGPA figure of the
\* latest semester that has one in the block.
C12_DashboardSgpa ==
    (BlkDone /\ blk_parser \in {"sy", "nep"} /\ blk_out.dashboard_sgpa # "-")
        => /\ Contains(blk_out.result, "PASS")
           /\ blk_out.dashboard_sgpa = LatestSgpa

\* C20: a second-year or NEP block without an explicit result phrase is
\* emitted with result = "PASS" only if at least one grade was parsed and
\* none of the parsed grades is a fail-class grade; with no grade parsed
\* at all the result is not "PASS".
C20_NoGradeNoPass ==
    (BlkDone /\ blk_parser \in {"sy", "nep"} /\ ~HasResultPhrase /\ blk_out.result = "PASS")
        => (Len(BlkGrades) >= 1 /\ AllPassing)

(***************************************************************************)
(* extract_header_metadata on its own: one call on one document            *)
(***************************************************************************)
\* The most lines the first page of a document is drawn with
MaxHeaderLines == 3

\* "\n".join(lines) for lines given as strings
RECURSIVE JoinLines(_)
JoinLines(lines) ==
    IF lines = <<>> THEN ""
    ELSE IF Len(lines) = 1 THEN lines[1]
    ELSE lines[1] \o "\n" \o JoinLines(Tail(lines))

SyHeaderLines ==
    {"BACHELOR OF ARTS (REV. 2019)",
     "MASTER OF SCIENCE",
     "College Ledger",
     "Puncode : CAAN016180 [0105]HIRAY ARTS COLLEGE, NASHIK,",
     "Puncode : CAAN01 [0105]",
     "[0105] HIRAY SCIENCE COLLEGE,",
     "PRN: 720 SEAT NO.: 101"}

NepHeaderLines ==
    {"SPPU, PUNE-411 007",
     "BACHELOR OF SCIENCE(2024 Pattern (NEP 2020))",
     "MASTER OF ARTS",
     "College Ledger",
     "Puncode : CAAN016180 [0105]HIRAY COLLEGE",
     "PRN: 720 SEAT NO.: 101"}

GazetteHeaderLines ==
    {"SAVITRIBAI PHULE PUNE UNIVERSITY",
     "RESULT OF THE BACHELOR OF COMMERCE (REV.2019) EXAMINATION",
     "BACHELOR OF COMMERCE (REV.2019)",
     "MASTER OF COMMERCE",
     "1234 PANCHAVATI COLLEGE OF MGNT.AND COMM.SCIENCE,NASHIK PAGE : 1",
     "PANCHAVATI COLLEGE NASHIK",
     "1234 RAM SITA M 1234567890"}

HeaderLines(p) ==
    CASE p = "sy" -> SyHeaderLines
      [] p = "nep" -> NepHeaderLines
      [] p = "gazette" -> GazetteHeaderLines

\* The title page of a ledger whose course name is printed on two lines
TitlePage(p) ==
    CASE p = "sy" ->
            JoinLines(<<"SPPU, PUNE-411 007", "BACHELOR OF SCIENCE", "(COMPUTER SCIENCE)",
                        "(2019 Pattern)">>)
      [] p = "nep" ->
            JoinLines(<<"SPPU, PUNE-411 007", "BACHELOR OF SCIENCE", "(COMPUTER SCIENCE)",
                        "College Ledger">>)
      [] p = "gazette" ->
            JoinLines(<<"SAVITRIBAI PHULE PUNE UNIVERSITY", "RESULT OF THE BACHELOR OF COMMERCE",
                        "(REV.2019) EXAMINATION">>)

\* The documents: without a page, of one page of up to MaxHeaderLines lines
\* (none: a page without text), of two pages of one line each, and the
\* title page with a course name on two lines
HeaderDocuments(p) ==
    {<<>>, <<TitlePage(p)>>}
        \cup {<<JoinLines(ls)>> : ls \in SeqsUpTo(HeaderLines(p), MaxHeaderLines)}
        \cup {<<a, b>> : a \in HeaderLines(p), b \in HeaderLines(p)}

HdrInit ==
    /\ hdr_parser \in {"sy", "nep", "gazette"}
    /\ hdr_pages \in HeaderDocuments(hdr_parser)
    /\ hdr_out = None
    /\ hdr_pc = "call"
    /\ RowIdle
    /\ BlkIdle
    /\ MainIdle
    /\ AppIdle

\* parser_sy.extract_header_metadata(pdf)
HeaderSy ==
    /\ hdr_pc = "call"
    /\ hdr_parser = "sy"
    /\ hdr_out' = sy_extract_header_metadata(hdr_pages)
    /\ hdr_pc' = "done"
    /\ UNCHANGED <<hdr_parser, hdr_pages, row_vars, blk_vars, main_vars, app_vars>>

\* parser_nep.extract_header_metadata(pdf)
HeaderNep ==
    /\ hdr_pc = "call"
    /\ hdr_parser = "nep"
    /\ hdr_out' = nep_extract_header_metadata(hdr_pages)
    /\ hdr_pc' = "done"
    /\ UNCHANGED <<hdr_parser, hdr_pages, row_vars, blk_vars, main_vars, app_vars>>

\* parser.extract_header_metadata(pdf)
HeaderGazette ==
    /\ hdr_pc = "call"
    /\ hdr_parser = "gazette"
    /\ hdr_out' = gaz_extract_header_metadata(hdr_pages)
    /\ hdr_pc' = "done"
    /\ UNCHANGED <<hdr_parser, hdr_pages, row_vars, blk_vars, main_vars, app_vars>>

HdrNext == HeaderSy \/ HeaderNep \/ HeaderGazette

SpecHeader == HdrInit /\ [][HdrNext]_vars

(***************************************************************************)
(* Claims on the metadata of a document (under SpecHeader)                 *)
(***************************************************************************)
HdrDone == hdr_pc = "done"

MetadataFields == {"pun_code", "course_name", "college_name"}

\* C15 as stated: extract_header_metadata returns (it cannot raise: the
\* action always yields a record) the three fields, each holding a
\* non-empty text a pattern recovered or else the string "Unknown", so
\* never None and never the empty string.
C15_UnknownDefaults ==
    HdrDone =>
        /\ DOMAIN hdr_out = MetadataFields
        /\ \A f \in MetadataFields : hdr_out[f] \notin {NoneValue, ""}

\* The text of the first page, "" for a document without pages
FirstPageText == IF Len(hdr_pages) = 0 THEN "" ELSE hdr_pages[1]

\* The primary course pattern of the parser applied matches the first page
PrimaryCourseMatches ==
    CASE hdr_parser = "nep" -> nep_course_match(FirstPageText) # <<>>
      [] hdr_parser = "gazette" -> gaz_course_match(FirstPageText) # <<>>
      [] hdr_parser = "sy" -> sy_course_match(FirstPageText) # <<>>

\* The header holds a generic "BACHELOR OF ..." or "MASTER OF ..." phrase
HasDegreePhrase ==
    \/ Contains(Upper(FirstPageText), "BACHELOR OF ")
    \/ Contains(Upper(FirstPageText), "MASTER OF ")

\* C16 as stated: in the gazette and the NEP parser, when the primary
\* course pattern does not match the header text and the header holds a
\* "BACHELOR OF ..." or "MASTER OF ..." phrase, course_name is that phrase
\* and not "Unknown".
C16_CourseFallback ==
    (HdrDone /\ hdr_parser \in {"nep", "gazette"} /\ ~PrimaryCourseMatches /\ HasDegreePhrase)
        => /\ hdr_out.course_name # "Unknown"
           /\ \/ StartsWith(Upper(hdr_out.course_name), "BACHELOR OF ")
              \/ StartsWith(Upper(hdr_out.course_name), "MASTER OF ")

\* A line that begins with a code of three or four digits and a blank
IsCodeLine(line) ==
    LET toks == Split(line)
    IN  Len(toks) >= 2 /\ IsDigits(toks[1]) /\ Len(toks[1]) \in {3, 4}
            /\ StartsWith(line, toks[1])

\* The NAME of a line "<code> NAME PAGE : <n>", "" if the line is not of
\* that form
TitleName(line) ==
    LET toks == Split(line)
        n == Len(toks)
    IN  IF /\ IsCodeLine(line) /\ n >= 5
           /\ toks[n - 2] = "PAGE" /\ toks[n - 1] = ":" /\ IsDigits(toks[n])
        THEN JoinSp(SubSeq(toks, 2, n - 3))
        ELSE ""

\* The first line of the first page that begins with a code, "" if none
FirstCodeLine ==
    LET lines == TextLines(FirstPageText)
        at == {k \in 1..Len(lines) : IsCodeLine(lines[k])}
    IN  IF at = {} THEN "" ELSE lines[MinOf(at)]

\* C17: when the header line of a gazette page, the first line that begins
\* with a three- or four-digit code, has the form "<code> NAME PAGE : <n>",
\* college_name is exactly NAME.
C17_CollegeFromTitle ==
    (HdrDone /\ hdr_parser = "gazette" /\ TitleName(FirstCodeLine) # "")
        => hdr_out.college_name = TitleName(FirstCodeLine)

\* C17 witness: the header line of the scenario, followed by a student line,
\* gave the college name of the scenario.
C17_Witness ==
    /\ HdrDone
    /\ hdr_parser = "gazette"
    /\ Len(hdr_pages) = 1
    /\ TextLines(hdr_pages[1]) =
          <<"1234 PANCHAVATI COLLEGE OF MGNT.AND COMM.SCIENCE,NASHIK PAGE : 1",
            "1234 RAM SITA M 1234567890">>
    /\ hdr_out.college_name = "PANCHAVATI COLLEGE OF MGNT.AND COMM.SCIENCE,NASHIK"

\* C25: the course_name an extractor returns is a single line without a
\* run of whitespace: it holds no line break and no two blanks in a row.
C25_CourseSingleLine ==
    HdrDone => /\ ~ Contains(hdr_out.course_name, "\n")
               /\ ~ Contains(hdr_out.course_name, "  ")

(***************************************************************************)
(* main of the three parsers: open the document, split it, loop over the   *)
(* blocks, return the envelope.                                            *)
(***************************************************************************)
\* The most text fragments a document is drawn with
MaxBlocks == 3

\* A page break between two fragments of a document
PageBreak == <<"\f">>

\* The heading of a second-year ledger: the paper list and the title
SyHeading ==
    <<"Paper", "List", NL, "CS-101", "Data", "Structures", NL, "SEMESTER", "PATTERN", NL>>

\* The heading of a NEP ledger: the subject table and the title
NepHeading == <<"CS-101", "Data", "Structures", NL, "College", "Ledger", "Semester", NL>>

SyStudent(prn, sem, g) ==
    <<"PRN:", prn, "SEAT", "NO.:", "101", NL, "SEMESTER:", sem, NL>> \o LedgerRow(g)

\* The rows of a student that a page break cut off from the rest
SyContinued == <<"SEMESTER:", "2", NL>> \o LedgerRow("B")

\* A student whose block carries the Puncode line of the college
SyCollegeStudent ==
    <<"PRN:", "724", "SEAT", "NO.:", "101", NL,
      "Puncode", ":", "CAAN016180", "[0105]", "HIRAY", "COLLEGE", NL,
      "SEMESTER:", "1", NL>> \o LedgerRow("A")

\* Fragments of a second-year ledger: a heading, two students, a student
\* under a semester the record has no list for, a student with no
\* semester section, rows that continue a student, a student with the
\* Puncode line
SyFragments ==
    {SyHeading,
     SyContinued,
     SyCollegeStudent,
     SyStudent("720", "1", "A"),
     SyStudent("721", "2", "F"),
     SyStudent("722", "5", "A"),
     <<"PRN:", "723", "SEAT", "NO.:", "104", NL>>}

NepStudent(prn, g) ==
    <<"PRN:", prn, "SEAT", "NO.:", "101", NL, "Semester", ":", "1", NL>> \o LedgerRow(g)

NepContinued == <<"Semester", ":", "2", NL>> \o LedgerRow("B")

\* Fragments of a NEP ledger: a heading, two students, a student with no
\* seat number, a student with no semester section, rows that continue a
\* student
NepFragments ==
    {NepHeading,
     NepContinued,
     NepStudent("720", "A"),
     NepStudent("721", "F") \o <<"First", "Year", "Result", ":", "FAIL", "A.T.K.T.", NL>>,
     <<"PRN:", "722", NL, "Semester", ":", "1", NL>> \o LedgerRow("A"),
     <<"PRN:", "723", "SEAT", "NO.:", "104", NL>>}

GazetteStudent(seat, prn, g, ph) ==
    <<seat, "RAM", "SITA", "M", prn, NL>> \o GazetteSubject(g)
        \o <<"GR6-A", ":", "O", "2", NL>> \o ph \o <<DashRun, NL>>

\* Fragments of a gazette: the column heading, two students, a footer
\* without a student in it, an empty block
GazetteFragments ==
    {<<"SEAT", "NO.", "NAME", NL, DashRun, NL>>,
     GazetteStudent("1234", "1234567890", "A", <<"CGPA", ":", "7.5", NL>>),
     GazetteStudent("1235", "1234567891", "F", <<"FAIL", "A.T.K.T.", NL>>),
     <<"TOTAL", "STUDENTS", ":", "2", NL, DashRun, NL>>,
     <<NL, DashRun, NL>>}

FragmentsOf(p) ==
    CASE p = "sy" -> SyFragments
      [] p = "nep" -> NepFragments
      [] p = "gazette" -> GazetteFragments

\* The page texts of a document given as fragments and page breaks
RECURSIVE PagesFrom(_, _)
PagesFrom(items, cur) ==
    IF items = <<>> THEN <<cur>>
    ELSE IF Head(items) = PageBreak THEN <<cur>> \o PagesFrom(Tail(items), <<>>)
    ELSE PagesFrom(Tail(items), cur \o Head(items))

Documents(p) ==
    {PagesFrom(items, <<>>) : items \in SeqsUpTo(FragmentsOf(p) \cup {PageBreak}, MaxBlocks)}

\* str(e) of the exception pdfplumber.open raises on a file it cannot read
OpenError == "No such file"

\* The mapping of a document with no paper list
NoSubjects == <<>>

\* page.extract_text() of every page of the document
page_texts(pages) == [k \in 1..Len(pages) |-> Render(pages[k])]

\* parser_sy.main: a field the header left "Unknown" is taken from the
\* backup metadata, if the backup has it
sy_restore(found, backup) ==
    [key \in {"pun_code", "course_name", "college_name"} |->
        IF found[key] = "Unknown" /\ backup[key] \notin {NoneValue, "Unknown"}
        THEN backup[key] ELSE found[key]]

\* re.search(r"Puncode\s*:.*?\d+\]\s*(.*?)(?=\n|$)", block, re.IGNORECASE):
\* <<group 1>>, <<>> if there is no match
sy_local_coll(s) ==
    LET u == Upper(s)
        colon(i) == SkipWs(s, i + 7)
        close(i) == FirstOf({q \in (colon(i) + 2)..(LineEnd(s, colon(i) + 1) - 1) :
                               Ch(s, q) = "]" /\ Ch(s, q - 1) \in Digits})
        ok(i) == HasAt(u, i, "PUNCODE") /\ HasAt(s, colon(i), ":") /\ close(i) # 0
        i0 == FirstOf({i \in 1..Len(s) : ok(i)})
        g == SkipWs(s, close(i0) + 1)
    IN  IF i0 = 0 THEN <<>> ELSE <<SubSeq(s, g, LineEnd(s, g) - 1)>>

\* parser_sy.main: the metadata after the loop body has looked at a block
sy_block_metadata(found, block) ==
    IF /\ LineContains(block, "SEMESTER")
       /\ found.college_name = "Unknown"
       /\ sy_local_coll(Render(block)) # <<>>
    THEN [found EXCEPT !.college_name = Strip(sy_local_coll(Render(block))[1])]
    ELSE found

\* A lookup that stores the default it returns, for the first word of every
\* line of eight words or more
map_setdefault(mapping, block) ==
    LET ls == Lines(block)
        codes == {ls[k][1] : k \in {j \in 1..Len(ls) : Len(ls[j]) >= 8}}
    IN  [c \in DOMAIN mapping \cup codes |-> IF c \in DOMAIN mapping THEN mapping[c] ELSE "---"]

\* subject_map.get(code, default) of the row parsers only reads the mapping:
\* the mapping after a block has been parsed
map_after_block(mapping, block) == mapping

\* res['course_name'] = metadata['course_name'], on a record that was made
with_course(rec, course) ==
    IF rec = None THEN None
    ELSE [f \in DOMAIN rec \cup {"course_name"} |-> IF f = "course_name" THEN course ELSE rec[f]]

MainInit ==
    /\ pattern \in {"sy", "nep", "gazette"}
    /\ pdf \in {[opens |-> TRUE, pages |-> d] : d \in Documents(pattern)}
                \cup {[opens |-> FALSE, pages |-> <<>>]}
    /\ pc = "open"
    /\ student_blocks = <<>>
    /\ idx = 0
    /\ all_students = <<>>
    /\ envelope = None
    /\ prev = <<>>
    /\ metadata = None
    /\ subject_map = <<>>
    /\ RowIdle
    /\ BlkIdle
    /\ HdrIdle
    /\ AppIdle

\* A list that starts from what an earlier invocation left in it
stale_students(left_over) == left_over

\* all_students = []: the list of an invocation starts empty, whatever an
\* earlier invocation left
fresh_students(left_over) == <<>>

\* A collection step that keeps one record per PRN
append_unique(students, rec) ==
    IF rec = None \/ \E k \in 1..Len(students) : students[k].prn = rec.prn
    THEN students ELSE Append(students, rec)

\* all_students.append(student), for the blocks that gave a record
append_student(students, rec) ==
    IF rec = None THEN students ELSE Append(students, rec)

\* The except clause of main: the document cannot be opened
failure_prefix(p) ==
    CASE p = "sy" -> "SY Parser Critical Failure: "
      [] p = "nep" -> "NEP Parser Global Error: "
      [] p = "gazette" -> "Internal PDF processing failure: "

OpenFails ==
    /\ pc = "open"
    /\ ~ pdf.opens
    /\ envelope' = [success |-> FALSE, error |-> failure_prefix(pattern) \o OpenError]
    /\ pc' = "done"
    /\ UNCHANGED <<prev, pattern, pdf, student_blocks, idx, all_students, metadata, subject_map,
                   row_vars, blk_vars, hdr_vars, app_vars>>

\* parser_sy.main, Phases 1 to 3
OpenSy ==
    /\ pc = "open"
    /\ pattern = "sy"
    /\ pdf.opens
    /\ \E texts \in {page_texts(pdf.pages)} :
         \E scan \in {sy_extract_subject_mapping(texts)} :
            /\ subject_map' = scan.mapping
            /\ metadata' = sy_restore(sy_extract_header_metadata(texts), scan.backup)
    /\ student_blocks' = re_split("sy", JoinNL(pdf.pages))
    /\ idx' = 1
    /\ all_students' = fresh_students(all_students)
    /\ pc' = "loop"
    /\ UNCHANGED <<prev, pattern, pdf, envelope, row_vars, blk_vars, hdr_vars, app_vars>>

\* parser_nep.main: the blocks of every page that has text, page by page
nep_page_blocks(pages) ==
    Concat([k \in 1..Len(pages) |->
              IF pages[k] = <<>> THEN <<>> ELSE re_split("nep", pages[k])])

OpenNep ==
    /\ pc = "open"
    /\ pattern = "nep"
    /\ pdf.opens
    /\ subject_map' = nep_extract_subject_mapping(page_texts(pdf.pages))
    /\ metadata' = nep_extract_header_metadata(page_texts(pdf.pages))
    /\ student_blocks' = nep_page_blocks(pdf.pages)
    /\ idx' = 1
    /\ all_students' = fresh_students(all_students)
    /\ pc' = "loop"
    /\ UNCHANGED <<prev, pattern, pdf, envelope, row_vars, blk_vars, hdr_vars, app_vars>>

\* parser.main and the split of analyze_gazette_pattern
OpenGazette ==
    /\ pc = "open"
    /\ pattern = "gazette"
    /\ pdf.opens
    /\ metadata' = gaz_extract_header_metadata(page_texts(pdf.pages))
    /\ student_blocks' = re_split("gazette", JoinNL(pdf.pages))
    /\ idx' = 1
    /\ all_students' = fresh_students(all_students)
    /\ pc' = "loop"
    /\ UNCHANGED <<prev, pattern, pdf, envelope, subject_map, row_vars, blk_vars, hdr_vars, app_vars>>

\* The record a parser's loop body makes of a block, None if it drops it
block_record(p, block, mapping, found) ==
    CASE p = "sy" -> with_course(sy_block(block, mapping), found.course_name)
      [] p = "nep" -> with_course(nep_block(block, mapping), found.course_name)
      [] p = "gazette" -> gazette_block(block)

\* parser_sy.main: one pass of the loop over student_blocks
StepSy ==
    /\ pc = "loop"
    /\ pattern = "sy"
    /\ idx <= Len(student_blocks)
    /\ metadata' = sy_block_metadata(metadata, student_blocks[idx])
    /\ all_students' = append_student(all_students,
                                      block_record("sy", student_blocks[idx], subject_map,
                                                   sy_block_metadata(metadata, student_blocks[idx])))
    /\ subject_map' = map_after_block(subject_map, student_blocks[idx])
    /\ idx' = idx + 1
    /\ UNCHANGED <<prev, pattern, pdf, pc, student_blocks, envelope, row_vars, blk_vars, hdr_vars, app_vars>>

\* parser_nep.main: one pass of the loop over blocks
StepNep ==
    /\ pc = "loop"
    /\ pattern = "nep"
    /\ idx <= Len(student_blocks)
    /\ all_students' = append_student(all_students,
                                      block_record("nep", student_blocks[idx], subject_map,
                                                   metadata))
    /\ subject_map' = map_after_block(subject_map, student_blocks[idx])
    /\ idx' = idx + 1
    /\ UNCHANGED <<prev, pattern, pdf, pc, student_blocks, envelope, metadata,
                   row_vars, blk_vars, hdr_vars, app_vars>>

\* parser.analyze_gazette_pattern: one pass of the loop over student_blocks
StepGazette ==
    /\ pc = "loop"
    /\ pattern = "gazette"
    /\ idx <= Len(student_blocks)
    /\ all_students' = append_student(all_students,
                                      block_record("gazette", student_blocks[idx], subject_map,
                                                   metadata))
    /\ idx' = idx + 1
    /\ UNCHANGED <<prev, pattern, pdf, pc, student_blocks, envelope, metadata, subject_map,
                   row_vars, blk_vars, hdr_vars, app_vars>>

\* parser_sy.main: the return after the loop
ReturnSy ==
    /\ pc = "loop"
    /\ pattern = "sy"
    /\ idx > Len(student_blocks)
    /\ envelope' = [success |-> TRUE, college_info |-> metadata, student_data |-> all_students]
    /\ pc' = "done"
    /\ UNCHANGED <<prev, pattern, pdf, student_blocks, idx, all_students, metadata, subject_map,
                   row_vars, blk_vars, hdr_vars, app_vars>>

\* parser_nep.main: the return after the loop
ReturnNep ==
    /\ pc = "loop"
    /\ pattern = "nep"
    /\ idx > Len(student_blocks)
    /\ envelope' = IF all_students # <<>>
                   THEN [success |-> TRUE, college_info |-> metadata, student_data |-> all_students]
                   ELSE [success |-> FALSE, error |-> "No valid NEP student records found."]
    /\ pc' = "done"
    /\ UNCHANGED <<prev, pattern, pdf, student_blocks, idx, all_students, metadata, subject_map,
                   row_vars, blk_vars, hdr_vars, app_vars>>

\* parser.main: the return after analyze_gazette_pattern
ReturnGazette ==
    /\ pc = "loop"
    /\ pattern = "gazette"
    /\ idx > Len(student_blocks)
    /\ envelope' = IF all_students # <<>>
                   THEN [success |-> TRUE, college_info |-> metadata, student_data |-> all_students]
                   ELSE [success |-> FALSE,
                         error |-> "No recognizable student records were identified in the PDF."]
    /\ pc' = "done"
    /\ UNCHANGED <<prev, pattern, pdf, student_blocks, idx, all_students, metadata, subject_map,
                   row_vars, blk_vars, hdr_vars, app_vars>>

Init == MainInit

Next ==
    \/ OpenFails
    \/ OpenSy
    \/ OpenNep
    \/ OpenGazette
    \/ StepSy
    \/ StepNep
    \/ StepGazette
    \/ ReturnSy
    \/ ReturnNep
    \/ ReturnGazette

Spec == Init /\ [][Next]_vars

(***************************************************************************)
(* main invoked again and again: every invocation after the first one      *)
(* starts in what the one before it left behind                            *)
(***************************************************************************)
\* The most invocations of main in a row
MaxCalls == 3

\* The documents handed to the invocations: one student, and a heading
\* with two students
CallDocuments(p) ==
    CASE p = "sy" ->
            {PagesFrom(<<SyStudent("720", "1", "A")>>, <<>>),
             PagesFrom(<<SyHeading, SyStudent("720", "1", "A"),
                         SyStudent("721", "2", "F")>>, <<>>)}
      [] p = "nep" ->
            {PagesFrom(<<NepStudent("720", "A")>>, <<>>),
             PagesFrom(<<NepHeading, NepStudent("720", "A"),
                         NepStudent("721", "F")>>, <<>>)}
      [] p = "gazette" ->
            {PagesFrom(<<GazetteStudent("1234", "1234567890", "A",
                                        <<"CGPA", ":", "7.5", NL>>)>>, <<>>),
             PagesFrom(<<<<"SEAT", "NO.", "NAME", NL, DashRun, NL>>,
                         GazetteStudent("1234", "1234567890", "A", <<"CGPA", ":", "7.5", NL>>),
                         GazetteStudent("1235", "1234567891", "F", <<"FAIL", "A.T.K.T.", NL>>)>>,
                       <<>>)}

CallInputs(p) ==
    {[opens |-> TRUE, pages |-> d] : d \in CallDocuments(p)}
        \cup {[opens |-> FALSE, pages |-> <<>>]}

CallsInit ==
    /\ pattern \in {"sy", "nep", "gazette"}
    /\ pdf \in CallInputs(pattern)
    /\ pc = "open"
    /\ student_blocks = <<>>
    /\ idx = 0
    /\ all_students = <<>>
    /\ envelope = None
    /\ prev = <<>>
    /\ metadata = None
    /\ subject_map = <<>>
    /\ RowIdle
    /\ BlkIdle
    /\ HdrIdle
    /\ AppIdle

\* main(pdf_path) is called again after it returned: the caller keeps the
\* envelope; the locals of the invocation that returned are what the new
\* one finds and has to overwrite
Call ==
    /\ pc = "done"
    /\ Len(prev) < MaxCalls - 1
    /\ prev' = Append(prev, [pattern |-> pattern, pdf |-> pdf, envelope |-> envelope])
    /\ pattern' \in {"sy", "nep", "gazette"}
    /\ pdf' \in CallInputs(pattern')
    /\ envelope' = None
    /\ pc' = "open"
    /\ UNCHANGED <<student_blocks, idx, all_students, metadata, subject_map,
                   row_vars, blk_vars, hdr_vars, app_vars>>

CallsNext == Next \/ Call

SpecCalls == CallsInit /\ [][CallsNext]_vars

\* An earlier invocation on the document of this one
SameInput(k) == prev[k].pattern = pattern /\ prev[k].pdf = pdf

\* C13: an invocation of main on a document returns the envelope every
\* earlier invocation on that document returned, whatever was parsed in
\* between: nothing an invocation leaves behind reaches a later one.
C13_Deterministic ==
    pc = "done" => \A k \in 1..Len(prev) : SameInput(k) => prev[k].envelope = envelope

\* C13 witness: a document was parsed, then a different one, then the
\* first one again, each time with student records in the envelope.
C13_Witness ==
    /\ pc = "done"
    /\ Len(prev) = 2
    /\ SameInput(1)
    /\ ~SameInput(2)
    /\ envelope.success
    /\ prev[2].envelope.success
    /\ Len(envelope.student_data) = 2
    /\ prev[1].envelope = envelope

\* The mapping extract_subject_mapping gives for the document of this
\* invocation
BuiltMap ==
    CASE pattern = "sy" -> sy_extract_subject_mapping(page_texts(pdf.pages)).mapping
      [] pattern = "nep" -> nep_extract_subject_mapping(page_texts(pdf.pages))

\* The invocation is in or past the loop over the blocks of a ledger
InParse == pattern # "gazette" /\ pdf.opens /\ pc \in {"loop", "done"}

\* C18: from the first pass of the loop over the blocks to the return, the
\* subject map is the whole mapping of the document, and no step taken
\* while the loop runs changes it.
C18_MapReadOnly ==
    /\ [](InParse => subject_map = BuiltMap)
    /\ [][pc = "loop" => subject_map' = subject_map]_vars

\* The texts of the pages up to the first "PRN:" marker of the document:
\* the pages before the page that holds it, and that page's text before it
Prologue(texts) ==
    LET k == FirstOf({j \in 1..Len(texts) : FindPrn(texts[j]) # 0})
    IN  IF k = 0 THEN texts
        ELSE SubSeq(texts, 1, k - 1) \o <<SubSeq(texts[k], 1, FindPrn(texts[k]) - 1)>>

\* The mapping the extractor of the pattern builds from the given page texts
MapOf(p, texts) ==
    CASE p = "sy" -> sy_extract_subject_mapping(texts).mapping
      [] p = "nep" -> nep_extract_subject_mapping(texts)

\* Every entry of mapping a is an entry of mapping b
EntriesWithin(a, b) == \A c \in DOMAIN a : c \in DOMAIN b /\ b[c] = a[c]

\* C23: every entry of the subject map comes from the text before the first
\* "PRN:" marker of the document: no line after the marker, on its page or
\* on a later page, adds an entry.
C23_ScanStopsAtMarker ==
    InParse => EntriesWithin(subject_map, MapOf(pattern, Prologue(page_texts(pdf.pages))))

\* C18 witness: a NEP ledger with a subject table and two students was
\* returned, the rows of both students named from the table.
C18_Witness ==
    /\ pc = "done"
    /\ pattern = "nep"
    /\ envelope.success
    /\ DOMAIN subject_map = {"CS-101"}
    /\ Len(envelope.student_data) = 2
    /\ \A k \in 1..2 : envelope.student_data[k].sem1_subjects[1].name = subject_map["CS-101"]

(***************************************************************************)
(* Claims on main (under Spec)                                             *)
(***************************************************************************)
Returned == pc = "done"

\* result.get('student_data', []) of the returned envelope
StudentData == Get(envelope, "student_data", <<>>)

\* C1 as stated: when the document yields no student record, main returns
\* success = false and no student data; it never returns success = true
\* with an empty student_data.  (An envelope without the student_data key
\* is read as one with an empty list.)
C1_EmptyMeansFailure ==
    (Returned /\ all_students = <<>>)
        => (envelope.success = FALSE /\ StudentData = <<>>)

\* The records of the blocks that pass the marker filter and the identity
\* match, in the order of the blocks
RECURSIVE RecordsOf(_, _)
RecordsOf(p, blocks) ==
    IF blocks = <<>> THEN <<>>
    ELSE LET rec == block_record(p, Head(blocks), subject_map, metadata)
         IN  (IF rec = None THEN <<>> ELSE <<rec>>) \o RecordsOf(p, Tail(blocks))

\* C2: at every point of the loop the records collected are exactly the
\* records of the blocks read so far that pass the filter and the identity
\* match, in document order, whatever blocks were dropped in between and
\* whether or not two of them carry the same identity; and the student_data
\* of a successful envelope is that sequence for the whole document.
C2_DocumentOrder ==
    /\ pc = "loop" => all_students = RecordsOf(pattern, SubSeq(student_blocks, 1, idx - 1))
    /\ (Returned /\ envelope.success)
          => envelope.student_data = RecordsOf(pattern, student_blocks)

\* C2 witness: a second-year document of three students, the second one
\* dropped on an exception, the first and the third with the same PRN, was
\* returned with both of them.
C2_Witness ==
    /\ Returned
    /\ pattern = "sy"
    /\ Len(student_blocks) = 4
    /\ sy_block_raises(student_blocks[3], subject_map)
    /\ Len(envelope.student_data) = 2
    /\ envelope.student_data[1].prn = envelope.student_data[2].prn

\* C24: the blocks of a second-year or NEP ledger are those of the full
\* document text, each from a student marker to the next whatever page
\* breaks lie between: the records collected are the records of the blocks
\* of the joined pages, so the rows of a student that continue on the next
\* page are in the student's record.
C24_BlocksOfFullText ==
    (Returned /\ pdf.opens /\ pattern \in {"sy", "nep"})
        => all_students = RecordsOf(pattern, re_split(pattern, JoinNL(pdf.pages)))

\* The block the loop of parser_sy.main reads next has the SEMESTER marker
\* and a PRN with digits
SyStudentNext ==
    /\ pc = "loop"
    /\ pattern = "sy"
    /\ idx <= Len(student_blocks)
    /\ LineContains(student_blocks[idx], "SEMESTER")
    /\ sy_prn_match(student_blocks[idx]) # ""

\* C27: every pass of the loop of parser_sy.main over a block that has
\* "SEMESTER" and "PRN: <digits>" in it appends exactly one record, the one
\* of that PRN, whatever digit the SEMESTER headers of the block carry.
C27_OneRecordPerStudent ==
    [][SyStudentNext =>
          /\ Len(all_students') = Len(all_students) + 1
          /\ all_students'[Len(all_students')].prn = sy_prn_match(student_blocks[idx])]_vars

\* The records of the subject lines that stand under a "Semester : d" header
\* in the parts of a NEP block, from the k-th part on
RECURSIVE NepRowsUnder(_, _, _, _)
NepRowsUnder(parts, k, d, mapping) ==
    IF k > Len(parts) THEN <<>>
    ELSE (IF parts[k] # <<>> /\ StartsWith(parts[k][1], d)
          THEN [j \in 1..Len(nep_part_rows(parts[k])) |->
                    nep_row(nep_part_rows(parts[k])[j], mapping)]
          ELSE <<>>)
         \o NepRowsUnder(parts, k + 1, d, mapping)

\* C28: the record a pass of the loop of parser_nep.main appends has in
\* sem1_subjects the rows under the "Semester : 1" headers of its block and
\* in sem2_subjects the rows under its "Semester : 2" headers, whichever
\* sections the block has and in whatever order.
C28_RowsUnderTheirSemester ==
    [][(pc = "loop" /\ pattern = "nep" /\ idx <= Len(student_blocks)
            /\ Len(all_students') = Len(all_students) + 1)
        => /\ all_students'[Len(all_students')].sem1_subjects
                = NepRowsUnder(nep_sem_parts(student_blocks[idx]), 2, "1", subject_map)
           /\ all_students'[Len(all_students')].sem2_subjects
                = NepRowsUnder(nep_sem_parts(student_blocks[idx]), 2, "2", subject_map)]_vars

\* extract_header_metadata of the document of the invocation
HeaderFound == sy_extract_header_metadata(page_texts(pdf.pages))

\* C29: in parser_sy.main a field extract_header_metadata recovered keeps
\* its value through the backup scan and the loop over the blocks, and no
\* pass of the loop over the student blocks changes the metadata that is
\* returned as college_info.
C29_HeaderOnlyMetadata ==
    /\ []((pattern = "sy" /\ pdf.opens /\ pc \in {"loop", "done"})
            => \A f \in MetadataFields :
                  HeaderFound[f] # "Unknown" => metadata[f] = HeaderFound[f])
    /\ [][(pattern = "sy" /\ pc = "loop") => metadata' = metadata]_vars

\* The record carries a seat number or a PRN ("-" is the value of a field
\* that was not found)
HasIdentity(rec) == rec.prn \notin {"", "-"} \/ rec.seat_no \notin {"", "-"}

\* No identity field can be extracted from the block: it has no digits
\* after a PRN or a SEAT NO. label, and no gazette profile line
NoIdentityIn(p, block) ==
    CASE p = "sy" -> sy_prn_match(block) = "" /\ sy_seat_match(block) = ""
      [] p = "nep" -> nep_prn_match(block) = "" /\ nep_seat_match(block) = ""
      [] p = "gazette" -> gaz_info_match(block) = <<>>

\* C3: every record collected and every record returned has a non-empty
\* seat_no or prn, and the block the loop has just read gives no record
\* when no identity field can be extracted from it.
C3_RecordsHaveIdentity ==
    /\ \A k \in 1..Len(all_students) : HasIdentity(all_students[k])
    /\ \A k \in 1..Len(StudentData) : HasIdentity(StudentData[k])
    /\ (pc = "loop" /\ idx > 1 /\ NoIdentityIn(pattern, student_blocks[idx - 1]))
          => block_record(pattern, student_blocks[idx - 1], subject_map, metadata) = None

\* C3 witness: a second-year document whose first block is a heading with
\* the SEMESTER marker and no identity field was returned with the record
\* of the student after it and nothing for the heading.
C3_Witness ==
    /\ Returned
    /\ pattern = "sy"
    /\ Len(student_blocks) = 2
    /\ LineContains(student_blocks[1], "SEMESTER")
    /\ NoIdentityIn("sy", student_blocks[1])
    /\ Len(envelope.student_data) = 1
    /\ HasIdentity(envelope.student_data[1])

\* The fields of a result envelope
EnvelopeFields == {"success", "error", "college_info", "student_data"}

\* C14: every envelope main returns has the four fields success, error,
\* college_info and student_data, and its error is null exactly when its
\* success is true.
C14_FourFields ==
    Returned => /\ DOMAIN envelope = EnvelopeFields
                /\ (envelope.success <=> envelope.error = NoneValue)

(***************************************************************************)
(* app.py: the /analyze handler, which hands the uploaded file to the main *)
(* of one parser and keeps what it returned in PDF_DATA_STORE              *)
(***************************************************************************)
\* The most requests to /analyze in a row
MaxUploads == 2

\* request.files without the 'ledger_pdf' part
NoFilePart == "<no file part>"

\* What a request to /analyze brings as the name of the uploaded file
Uploads == {NoFilePart, "", "notes.txt", "ledger.pdf", "Ledger.PDF"}

\* The three early returns of analyze; file.filename.lower().endswith('.pdf')
\* is computed on the upper-cased name, the same test for these characters
accepts(name) ==
    /\ name # NoFilePart
    /\ name # ""
    /\ EndsWith(Upper(name), ".PDF")

\* The documents uploaded: those of CallInputs, and a document without pages
UploadInputs(p) == CallInputs(p) \cup {[opens |-> TRUE, pages |-> <<>>]}

\* YEAR_MAP.get(class_year, class_year)
YEAR_MAP(year) ==
    CASE year = "fy" -> "First Year (F.Y.)"
      [] year = "sy" -> "Second Year (S.Y.)"
      [] year = "ty" -> "Third Year (T.Y.)"
      [] OTHER -> year

\* if class_year == 'fy': parser_nep.main / elif 'sy': parser_sy.main /
\* else: parser.main
parser_of(year) ==
    IF year = "fy" THEN "nep" ELSE IF year = "sy" THEN "sy" ELSE "gazette"

\* PDF_DATA_STORE['pattern'] = 'NEP' / 'SY_4SEM' / '2019'
pattern_label(year) ==
    IF year = "fy" THEN "NEP" ELSE IF year = "sy" THEN "SY_4SEM" ELSE "2019"

\* d[key] = value
Put(d, key, value) ==
    [k \in DOMAIN d \cup {key} |-> IF k = key THEN value ELSE d[k]]

\* The loop of analyze over extracted_data, for one student
analyze_student(s, year) ==
    IF ~ Contains(Upper(Get(s, "result", "")), "PASS")
    THEN Put(s, "dashboard_sgpa", "-")
    ELSE IF year = "ty" THEN Put(s, "dashboard_sgpa", Get(s, "cgpa", "-"))
    ELSE IF "dashboard_sgpa" \notin DOMAIN s
         THEN Put(s, "dashboard_sgpa", Get(s, "cgpa", "-"))
    ELSE s

\* calculate_stats: the status a student is counted under
stats_status(std) ==
    IF Contains(Upper(Get(std, "result", "FAIL")), "PASS") THEN "pass"
    ELSE IF Contains(Upper(Get(std, "result", "FAIL")), "A.T.K.T")
            \/ Contains(Upper(Get(std, "result", "FAIL")), "ATKT") THEN "atkt"
    ELSE "fail"

\* calculate_stats: std['dashboard_sgpa'] = "-" on the students that did
\* not pass; the list is the one the store keeps
stats_students(student_list) ==
    [k \in 1..Len(student_list) |->
        IF stats_status(student_list[k]) = "pass" THEN student_list[k]
        ELSE Put(student_list[k], "dashboard_sgpa", "-")]

\* calculate_stats: the counts it returns (those by gender left out, the
\* records carrying no gender)
calculate_stats(student_list) ==
    [total |-> Len(student_list),
     pass |-> Cardinality({k \in 1..Len(student_list) : stats_status(student_list[k]) = "pass"}),
     atkt |-> Cardinality({k \in 1..Len(student_list) : stats_status(student_list[k]) = "atkt"}),
     fail |-> Cardinality({k \in 1..Len(student_list) : stats_status(student_list[k]) = "fail"})]

\* PDF_DATA_STORE.update({...})
store_update(st, year, college_info, extracted_data) ==
    [st EXCEPT !.course_display = Get(college_info, "course_name", "Unknown Course"),
               !.college_info = college_info,
               !.year_display = YEAR_MAP(year),
               !.all_students = extracted_data,
               !.display_students = extracted_data,
               !.stats = calculate_stats(extracted_data)]

\* analyze from the return of main on: the pattern is written first, then
\* the envelope is looked at
analyze_store(st, year, result) ==
    IF ~ result.success THEN Put(st, "pattern", pattern_label(year))
    ELSE IF result.student_data = <<>> THEN Put(st, "pattern", pattern_label(year))
    ELSE store_update(Put(st, "pattern", pattern_label(year)), year, result.college_info,
                      stats_students([k \in 1..Len(result.student_data) |->
                                         analyze_student(result.student_data[k], year)]))

AppInit ==
    /\ MainIdle
    /\ RowIdle
    /\ BlkIdle
    /\ HdrIdle
    /\ AppIdle

\* analyze returns before the file is saved: no file part, no file name, or
\* a name that does not end in .pdf
AnalyzeRefused ==
    /\ app_pc = "idle"
    /\ requests < MaxUploads
    /\ \E name \in Uploads : ~ accepts(name)
    /\ requests' = requests + 1
    /\ UNCHANGED <<store, class_year, app_pc, main_vars, row_vars, blk_vars, hdr_vars>>

\* analyze up to the call of main: the class year of the form chooses the
\* parser
Analyze ==
    /\ app_pc = "idle"
    /\ requests < MaxUploads
    /\ \E name \in Uploads : accepts(name)
    /\ class_year' \in {"fy", "sy", "ty"}
    /\ pattern' = parser_of(class_year')
    /\ pdf' \in UploadInputs(pattern')
    /\ envelope' = None
    /\ pc' = "open"
    /\ app_pc' = "parsing"
    /\ requests' = requests + 1
    /\ UNCHANGED <<store, prev, student_blocks, idx, all_students, metadata, subject_map,
                   row_vars, blk_vars, hdr_vars>>

\* analyze after main returned, up to its redirect
AnalyzeReturn ==
    /\ app_pc = "parsing"
    /\ pc = "done"
    /\ store' = analyze_store(store, class_year, envelope)
    /\ app_pc' = "idle"
    /\ UNCHANGED <<class_year, requests, main_vars, row_vars, blk_vars, hdr_vars>>

AppNext == Next \/ AnalyzeRefused \/ Analyze \/ AnalyzeReturn

SpecApp == AppInit /\ [][AppNext]_vars

\* The upload being handled was rejected: main returned a failure, or a
\* success without students
Rejected == ~ envelope.success \/ envelope.student_data = <<>>

\* The label of the parser whose records the list holds: the records of
\* parser_nep carry fy_total_msg, those of parser_sy sem3_subjects
ProducerLabel(students) ==
    IF "fy_total_msg" \in DOMAIN students[1] THEN "NEP"
    ELSE IF "sem3_subjects" \in DOMAIN students[1] THEN "SY_4SEM"
    ELSE "2019"

\* C30: when the parser rejects an upload (success false, or no student),
\* analyze leaves every key of PDF_DATA_STORE as it was, so that the pattern
\* of the store is always the one of the parser that produced all_students.
C30_RejectedUploadKeepsStore ==
    /\ [][(AnalyzeReturn /\ Rejected) => store' = store]_vars
    /\ []((app_pc = "idle" /\ store.all_students # <<>>)
            => store.pattern = ProducerLabel(store.all_students))

====
